---------------------------- MODULE Spec2Model ----------------------------
(***************************************************************************)
(* Field expression evaluation engine of zinc: the matrix operator fields  *)
(* of computed_field_matrix_operators.cpp, evaluated through a field cache *)
(* (the evaluation context) and created or redefined through a field       *)
(* module.                                                                 *)
(*                                                                         *)
(* FE_value / double are modelled as exact rationals <<n, d>>, d > 0, in   *)
(* lowest terms; d = 0 stands for a non-finite value (division by zero).   *)
(* C arrays are sequences, index k of the code is index k + 1 here.        *)
(***************************************************************************)
EXTENDS Integers, Sequences, FiniteSets, TLC

VARIABLES
    fields,              \* field manager: field id -> Computed_field
    replace_field,       \* Cmiss_field_module::replace_field, 0 is NULL
    cache_level,         \* nesting depth of begin_change / end_change
    changed,             \* changes recorded and not yet sent to the notifiers
    delivered,           \* what the notifier received during the last call
    location,            \* Cmiss_field_cache: current location
    locationCounter,     \* Cmiss_field_cache: generation of the value caches
    requestedDerivatives,\* Cmiss_field_cache: number_of_xi asked for
    valueCaches,         \* Cmiss_field_cache: field id -> FieldValueCache
    computing,           \* fields whose evaluate body is running
    bodyRuns,            \* per field: evaluate bodies run in this generation
    last,                \* the last call made and what it returned
    field_name,          \* Cmiss_field_module::field_name, "" is NULL
    otherCache,          \* a second Cmiss_field_cache of the region
    spectrum             \* a cmzn_spectrum

vars == <<fields, replace_field, cache_level, changed, delivered, location,
          locationCounter, requestedDerivatives, valueCaches, computing,
          bodyRuns, last, field_name, otherCache, spectrum>>

-----------------------------------------------------------------------------
(* Bounds of the model *)

MaxFields == 2
MaxGeneration == 3
MaxXi == 1
MaxLevel == 2
MaxModuleGeneration == 2

-----------------------------------------------------------------------------
(* Rational arithmetic standing for FE_value / double arithmetic *)

Abs(x) == IF x < 0 THEN -x ELSE x

RECURSIVE Gcd(_, _)
Gcd(a, b) == IF b = 0 THEN a ELSE Gcd(b, a % b)

Norm(n, d) ==
    IF d = 0 THEN <<0, 0>>
    ELSE LET g == Gcd(Abs(n), Abs(d))
             s == IF d < 0 THEN -1 ELSE 1
         IN  <<s * (n \div g), s * (d \div g)>>

R(n) == <<n, 1>>
Finite(a) == a[2] # 0
RAdd(a, b) == IF Finite(a) /\ Finite(b)
              THEN Norm(a[1] * b[2] + b[1] * a[2], a[2] * b[2]) ELSE <<0, 0>>
RSub(a, b) == IF Finite(a) /\ Finite(b)
              THEN Norm(a[1] * b[2] - b[1] * a[2], a[2] * b[2]) ELSE <<0, 0>>
RMul(a, b) == IF Finite(a) /\ Finite(b)
              THEN Norm(a[1] * b[1], a[2] * b[2]) ELSE <<0, 0>>
RDiv(a, b) == IF Finite(a) /\ Finite(b) /\ b[1] # 0
              THEN Norm(a[1] * b[2], a[2] * b[1]) ELSE <<0, 0>>

RECURSIVE RSum(_)
RSum(s) == IF s = <<>> THEN R(0) ELSE RAdd(s[1], RSum(Tail(s)))

RAbs(a) == <<Abs(a[1]), a[2]>>
RLess(a, b) == a[1] * b[2] < b[1] * a[2]

(* element k (C index) of array a *)
At(a, k) == a[k + 1]

-----------------------------------------------------------------------------
(* Fields and operator cores *)

Locations == {"A", "B", "N"}
NoLocation == "none"

(* the node value labels and versions of an FE_field besides its value *)
NodeValueLabels == {<<"D_DS1", 1>>, <<"D_DS1", 2>>, <<"D_DS2", 1>>}

(* A Computed_field with its core; the members a core kind does not have  *)
(* are 0.  A finite_element field carries the FE_field holding its         *)
(* parameters and where that is defined; parameters[loc] are the values    *)
(* set for location loc, <<>> where the FE_field has its initial ones,     *)
(* node_values[loc][label] those set for a node value label and version.   *)
(* A node_value field has the label and version it reads.                  *)
NoField ==
    [core |-> "none", number_of_components |-> 0, source_fields |-> <<>>,
     number_of_rows |-> 0, source_number_of_rows |-> 0,
     matrix_rows |-> 0, matrix_columns |-> 0, name |-> "",
     fe_field |-> 0, defined_at |-> {},
     parameters |-> [loc \in Locations |-> <<>>],
     nodal_value_type |-> "none", version_number |-> 0,
     node_values |-> [loc \in Locations |->
                        [label \in NodeValueLabels |-> <<>>]]]

Computed_field_core(type) == [NoField EXCEPT !.core = type]

Computed_field_determinant == Computed_field_core("determinant")

Computed_field_eigenvalues == Computed_field_core("eigenvalues")

Computed_field_eigenvectors == Computed_field_core("eigenvectors")

Computed_field_matrix_invert == Computed_field_core("matrix_invert")

Computed_field_matrix_multiply(number_of_rows) ==
    [Computed_field_core("matrix_multiply") EXCEPT
        !.number_of_rows = number_of_rows]

(* the constructor's first parameter is matrix_columns, its second is     *)
(* matrix_rows                                                             *)
Computed_field_projection(matrix_columns, matrix_rows) ==
    [Computed_field_core("projection") EXCEPT
        !.matrix_rows = matrix_rows, !.matrix_columns = matrix_columns]

Computed_field_transpose(source_number_of_rows) ==
    [Computed_field_core("transpose") EXCEPT
        !.source_number_of_rows = source_number_of_rows]

Computed_field_finite_element(fe_field, defined_at) ==
    [Computed_field_core("finite_element") EXCEPT
        !.fe_field = fe_field, !.defined_at = defined_at]

Computed_field_quaternion_to_matrix ==
    Computed_field_core("quaternion_to_matrix")

Computed_field_node_value(fe_field, nodal_value_type, version_number) ==
    [Computed_field_core("node_value") EXCEPT
        !.fe_field = fe_field, !.nodal_value_type = nodal_value_type,
        !.version_number = version_number]

Computed_field_matrix_to_quaternion ==
    Computed_field_core("matrix_to_quaternion")

(* Computed_field_projection::copy: the constructor is given matrix_rows  *)
(* first and matrix_columns second                                         *)
Computed_field_projection_copy(fd) ==
    [fd EXCEPT !.matrix_rows = Computed_field_projection(fd.matrix_rows,
                                   fd.matrix_columns).matrix_rows,
               !.matrix_columns = Computed_field_projection(fd.matrix_rows,
                                      fd.matrix_columns).matrix_columns]

(* core->copy() in a copy of the definition of a field *)
Computed_field_core_copy(fd) ==
    IF fd.core = "projection" THEN Computed_field_projection_copy(fd) ELSE fd

(* the fields of the manager *)
Managed(fs) == {f \in DOMAIN fs : fs[f].core # "none"}

isNumerical(fd) == fd.core # "none"

RECURSIVE SquareRootFrom(_, _)
SquareRootFrom(n, size) ==
    IF n * n < size THEN SquareRootFrom(n + 1, size) ELSE n

Computed_field_get_square_matrix_size(fd) ==
    LET size == fd.number_of_components
        n == SquareRootFrom(1, size)
    IN  IF n * n = size THEN n ELSE 0

Computed_field_is_square_matrix(fd) ==
    isNumerical(fd) /\ 0 # Computed_field_get_square_matrix_size(fd)

(* Computed_field_depends_on_field looking at the field itself only, not  *)
(* at its source fields                                                    *)
Computed_field_depends_on_field_itself(fs, f, g, fuel) == f = g

(* g is f or a source, at any depth, of f *)
RECURSIVE Computed_field_depends_on_field(_, _, _, _)
Computed_field_depends_on_field(fs, f, g, fuel) ==
    \/ f = g
    \/ /\ fuel > 0
       /\ \E i \in DOMAIN fs[f].source_fields :
             Computed_field_depends_on_field(fs, fs[f].source_fields[i], g,
                                             fuel - 1)

DependsOn(fs, f, g) == Computed_field_depends_on_field(fs, f, g, Cardinality(DOMAIN fs))

(* the fields that have f as a source *)
Dependents(fs, f) ==
    {d \in Managed(fs) : \E i \in DOMAIN fs[d].source_fields :
                             fs[d].source_fields[i] = f}

-----------------------------------------------------------------------------
(* Value caches and the field cache (evaluation context) *)

(* no cache: what a failed evaluate returns (NULL) *)
NoCache ==
    [exists |-> FALSE, evaluationCounter |-> -1, values |-> <<>>,
     derivatives |-> <<>>, derivatives_valid |-> FALSE]

RealFieldValueCache(componentCount) ==
    [exists |-> TRUE, evaluationCounter |-> -1,
     values |-> [k \in 1..componentCount |-> R(0)],
     derivatives |-> [k \in 1..(componentCount * MaxXi) |-> R(0)],
     derivatives_valid |-> FALSE]

(* the real value cache of the eigenvalues with the matrix a and the      *)
(* eigenvectors v, in columns                                              *)
EigenvalueFieldValueCache(componentCount) ==
    [exists |-> TRUE, evaluationCounter |-> -1,
     values |-> [k \in 1..componentCount |-> R(0)],
     derivatives |-> [k \in 1..(componentCount * MaxXi) |-> R(0)],
     derivatives_valid |-> FALSE,
     a |-> [k \in 1..(componentCount * componentCount) |-> R(0)],
     v |-> [k \in 1..(componentCount * componentCount) |-> R(0)]]

(* the real value cache with the LU-decomposed matrix a, the right hand   *)
(* side b and the pivot rows indx                                          *)
MatrixInvertFieldValueCache(componentCount, n) ==
    [exists |-> TRUE, evaluationCounter |-> -1,
     values |-> [k \in 1..componentCount |-> R(0)],
     derivatives |-> [k \in 1..(componentCount * MaxXi) |-> R(0)],
     derivatives_valid |-> FALSE,
     n |-> n, a |-> [k \in 1..(n * n) |-> R(0)],
     b |-> [k \in 1..n |-> R(0)], indx |-> [k \in 1..n |-> 0]]

(* core->createValueCache *)
createValueCache(fs, f) ==
    CASE fs[f].core = "eigenvalues" ->
            EigenvalueFieldValueCache(fs[f].number_of_components)
      [] fs[f].core = "matrix_invert" ->
            MatrixInvertFieldValueCache(fs[f].number_of_components,
                Computed_field_get_square_matrix_size(
                    fs[fs[f].source_fields[1]]))
      [] OTHER -> RealFieldValueCache(fs[f].number_of_components)

(* the cache of field f in field cache c, created on first use *)
getValueCache(fs, c, f) ==
    IF c.valueCaches[f].exists THEN c.valueCaches[f]
    ELSE createValueCache(fs, f)

(* the cache of f holds values of the current location *)
CacheValid(c, f) ==
    /\ c.valueCaches[f].exists
    /\ c.valueCaches[f].evaluationCounter = c.locationCounter

MaxRuns == 2
Count(n) == IF n < MaxRuns THEN n + 1 ELSE n

-----------------------------------------------------------------------------
(* Evaluation.  A field cache c is the record                              *)
(*   [location, locationCounter, requestedDerivatives, valueCaches,        *)
(*    computing, bodyRuns];                                                *)
(* an evaluate returns [cache |-> the field cache afterwards,              *)
(*                      valueCache |-> the field's value cache or NoCache] *)

RECURSIVE Computed_field_evaluate(_, _, _)
RECURSIVE Computed_field_core_evaluate(_, _, _)

(* element locations have xi derivatives, the node location has none *)
ElementLocations == {"A", "B"}
LocationNumber(loc) == CASE loc = "A" -> 1 [] loc = "B" -> 2 [] OTHER -> 3

(* the initial parameters of fe_field, interpolated at loc *)
FE_field_value(fe_field, loc, k) ==
    R(fe_field + (k + 1) * LocationNumber(loc))
FE_field_derivative(fe_field, loc, k, d) ==
    R((k + 1) * LocationNumber(loc) + d)

(* result of a core's evaluate: the field cache with the core's writes to *)
(* the value cache of f, and the return code                               *)
Written(c, f, valueCache, return_code) ==
    [cache |-> [c EXCEPT !.valueCaches[f] = valueCache], ok |-> return_code]

Computed_field_finite_element_evaluate(fs, c, f) ==
    LET valueCache == c.valueCaches[f]
        nc == fs[f].number_of_components
        number_of_xi == c.requestedDerivatives
    IN  IF c.location \in fs[f].defined_at
        THEN LET with == number_of_xi # 0 /\ c.location \in ElementLocations
             IN  Written(c, f,
                   [valueCache EXCEPT
                      !.values = [x \in 1..nc |->
                                    IF fs[f].parameters[c.location] # <<>>
                                    THEN At(fs[f].parameters[c.location],
                                            x - 1)
                                    ELSE FE_field_value(fs[f].fe_field,
                                             c.location, x - 1)],
                      !.derivatives =
                         IF with
                         THEN [x \in 1..Len(@) |->
                                 IF x - 1 < nc * number_of_xi
                                 THEN FE_field_derivative(fs[f].fe_field,
                                        c.location,
                                        (x - 1) \div number_of_xi,
                                        (x - 1) % number_of_xi)
                                 ELSE @[x]]
                         ELSE @,
                      !.derivatives_valid = with],
                   TRUE)
        ELSE Written(c, f, valueCache, FALSE)

(* the label and version a node_value field reads *)
NodeValueLabel(fd) == <<fd.nodal_value_type, fd.version_number>>

(* a node_value field evaluates at the nodes of its finite element field,  *)
(* source field 1 here, to the values set there for its label and          *)
(* version, 0 where none were set; it has no derivatives                   *)
Computed_field_node_value_evaluate(fs, c, f) ==
    LET valueCache == c.valueCaches[f]
        fe == fs[fs[f].source_fields[1]]
        set == fe.node_values[c.location][NodeValueLabel(fs[f])]
    IN  IF c.location \in fe.defined_at \ ElementLocations
        THEN Written(c, f,
                 [valueCache EXCEPT
                    !.values = [x \in 1..fs[f].number_of_components |->
                                  IF set # <<>> THEN set[x] ELSE R(0)],
                    !.derivatives_valid = FALSE],
                 TRUE)
        ELSE Written(c, f, valueCache, FALSE)

(* Computed_field_determinant::evaluate returning the product of the      *)
(* diagonal                                                                *)
Computed_field_determinant_evaluate_diagonal(fs, c, f) ==
    LET source == fs[f].source_fields[1]
        r == Computed_field_evaluate(fs, c, source)
        sourceCache == r.valueCache
        valueCache == r.cache.valueCaches[f]
        a == sourceCache.values
        n == Computed_field_get_square_matrix_size(fs[source])
    IN  IF sourceCache.exists
        THEN Written(r.cache, f,
                 [valueCache EXCEPT !.values[1] =
                     IF n = 1 THEN At(a, 0)
                     ELSE IF n = 2 THEN RMul(At(a, 0), At(a, 3))
                     ELSE RMul(At(a, 0), RMul(At(a, 4), At(a, 8)))], TRUE)
        ELSE Written(r.cache, f, valueCache, FALSE)

Computed_field_determinant_evaluate(fs, c, f) ==
    LET source == fs[f].source_fields[1]
        r == Computed_field_evaluate(fs, c, source)
        sourceCache == r.valueCache
        valueCache == r.cache.valueCaches[f]
        a == sourceCache.values
        nc == fs[source].number_of_components
    IN  IF sourceCache.exists
        THEN CASE nc = 1 ->
                    Written(r.cache, f,
                        [valueCache EXCEPT !.values[1] = At(a, 0)], TRUE)
               [] nc = 4 ->
                    Written(r.cache, f,
                        [valueCache EXCEPT !.values[1] =
                            RSub(RMul(At(a, 0), At(a, 3)),
                                 RMul(At(a, 1), At(a, 2)))], TRUE)
               [] nc = 9 ->
                    Written(r.cache, f,
                        [valueCache EXCEPT !.values[1] =
                            RAdd(RAdd(
                              RMul(At(a, 0), RSub(RMul(At(a, 4), At(a, 8)),
                                                  RMul(At(a, 5), At(a, 7)))),
                              RMul(At(a, 1), RSub(RMul(At(a, 5), At(a, 6)),
                                                  RMul(At(a, 3), At(a, 8))))),
                              RMul(At(a, 2), RSub(RMul(At(a, 3), At(a, 7)),
                                                  RMul(At(a, 4), At(a, 6)))))],
                        TRUE)
               [] OTHER -> Written(r.cache, f, valueCache, FALSE)
        ELSE Written(r.cache, f, valueCache, FALSE)

(* Quaternion::quaternion_to_matrix: the 4 x 4 rotation matrix of the     *)
(* quaternion (w, x, y, z), by rows                                        *)
Quaternion_quaternion_to_matrix(w, x, y, z) ==
    LET two(a, b) == RMul(R(2), RMul(a, b))
        one(a, b) == RSub(R(1), RAdd(two(a, a), two(b, b)))
    IN  <<one(y, z), RSub(two(x, y), two(w, z)),
          RAdd(two(x, z), two(w, y)), R(0),
          RAdd(two(x, y), two(w, z)), one(x, z),
          RSub(two(y, z), two(w, x)), R(0),
          RSub(two(x, z), two(w, y)), RAdd(two(y, z), two(w, x)),
          one(x, y), R(0),
          R(0), R(0), R(0), R(1)>>

(* the square root of a, exact where a is the square of a rational and    *)
(* rounded up to the next multiple of 1 / a[2] elsewhere; not a number     *)
(* for a negative a                                                        *)
Quaternion_sqrt(a) ==
    IF ~Finite(a) \/ a[1] < 0 THEN <<0, 0>>
    ELSE Norm(SquareRootFrom(0, a[1] * a[2]), a[2])

(* Quaternion::matrix_to_quaternion: (w, x, y, z) of the rotation in the   *)
(* 3 x 3 block of the 4 x 4 matrix m, from the trace where that is         *)
(* positive and from the largest diagonal element otherwise                *)
Quaternion_matrix_to_quaternion(m) ==
    LET trace == RAdd(At(m, 0), RAdd(At(m, 5), At(m, 10)))
        root(a, b, c) ==
            RMul(R(2), Quaternion_sqrt(RAdd(R(1), RSub(a, RAdd(b, c)))))
    IN  IF RLess(R(0), trace)
        THEN LET s == RMul(R(2), Quaternion_sqrt(RAdd(trace, R(1))))
             IN  <<RDiv(s, R(4)), RDiv(RSub(At(m, 9), At(m, 6)), s),
                   RDiv(RSub(At(m, 2), At(m, 8)), s),
                   RDiv(RSub(At(m, 4), At(m, 1)), s)>>
        ELSE IF RLess(At(m, 5), At(m, 0)) /\ RLess(At(m, 10), At(m, 0))
        THEN LET s == root(At(m, 0), At(m, 5), At(m, 10))
             IN  <<RDiv(RSub(At(m, 9), At(m, 6)), s), RDiv(s, R(4)),
                   RDiv(RAdd(At(m, 1), At(m, 4)), s),
                   RDiv(RAdd(At(m, 2), At(m, 8)), s)>>
        ELSE IF RLess(At(m, 10), At(m, 5))
        THEN LET s == root(At(m, 5), At(m, 0), At(m, 10))
             IN  <<RDiv(RSub(At(m, 2), At(m, 8)), s),
                   RDiv(RAdd(At(m, 1), At(m, 4)), s), RDiv(s, R(4)),
                   RDiv(RAdd(At(m, 6), At(m, 9)), s)>>
        ELSE LET s == root(At(m, 10), At(m, 0), At(m, 5))
             IN  <<RDiv(RSub(At(m, 4), At(m, 1)), s),
                   RDiv(RAdd(At(m, 2), At(m, 8)), s),
                   RDiv(RAdd(At(m, 6), At(m, 9)), s), RDiv(s, R(4))>>

(* Computed_field_quaternion_to_matrix::evaluate writing the 4 values of  *)
(* the source quaternion                                                   *)
Computed_field_quaternion_to_matrix_evaluate_source(fs, c, f) ==
    LET r == Computed_field_evaluate(fs, c, fs[f].source_fields[1])
    IN  IF r.valueCache.exists
        THEN Written(r.cache, f,
                 [r.cache.valueCaches[f] EXCEPT
                     !.values = r.valueCache.values], TRUE)
        ELSE Written(r.cache, f, r.cache.valueCaches[f], FALSE)

Computed_field_quaternion_to_matrix_evaluate(fs, c, f) ==
    LET r == Computed_field_evaluate(fs, c, fs[f].source_fields[1])
        sourceCache == r.valueCache
        valueCache == r.cache.valueCaches[f]
    IN  IF sourceCache.exists
        THEN LET matrix == Quaternion_quaternion_to_matrix(
                               At(sourceCache.values, 0),
                               At(sourceCache.values, 1),
                               At(sourceCache.values, 2),
                               At(sourceCache.values, 3))
             IN  Written(r.cache, f,
                     [valueCache EXCEPT
                         !.values = [x \in 1..Len(@) |->
                            IF x - 1 < 16 THEN matrix[x] ELSE @[x]]],
                     TRUE)
        ELSE Written(r.cache, f, valueCache, FALSE)

Computed_field_matrix_to_quaternion_evaluate(fs, c, f) ==
    LET r == Computed_field_evaluate(fs, c, fs[f].source_fields[1])
        sourceCache == r.valueCache
        valueCache == r.cache.valueCaches[f]
    IN  IF sourceCache.exists
        THEN LET quat == Quaternion_matrix_to_quaternion(sourceCache.values)
             IN  Written(r.cache, f,
                     [valueCache EXCEPT
                         !.values = [x \in 1..Len(@) |->
                            IF x - 1 < 4 THEN quat[x] ELSE @[x]]],
                     TRUE)
        ELSE Written(r.cache, f, valueCache, FALSE)

(* Jacobi eigenanalysis of the n x n matrix a, which works on the part of *)
(* a above the main diagonal: where that part is zero no rotation is       *)
(* made, d is the diagonal and v the identity.  Other matrices have        *)
(* results that are no rationals and are outside the model.                *)
Jacobi_eigenanalysis(n, a) ==
    CASE \A i \in 0..(n - 1), j \in 0..(n - 1) :
            i < j => At(a, i * n + j) = R(0) ->
         [ok |-> TRUE, a |-> a,
          d |-> [i \in 1..n |-> At(a, (i - 1) * n + i - 1)],
          v |-> [x \in 1..(n * n) |->
                   IF (x - 1) \div n = (x - 1) % n THEN R(1) ELSE R(0)],
          nrot |-> 0]

(* the index from r on, or else best, of the largest of the values d *)
RECURSIVE LargestFrom(_, _, _, _)
LargestFrom(n, d, r, best) ==
    IF r >= n THEN best
    ELSE LargestFrom(n, d, r + 1,
             IF RLess(At(d, best), At(d, r)) THEN r ELSE best)

(* sorts the eigenvalues d from position i on into descending order and   *)
(* exchanges the columns of v alike                                        *)
RECURSIVE eigensort_from(_, _, _, _)
eigensort_from(n, d, v, i) ==
    IF i >= n - 1 THEN [ok |-> TRUE, d |-> d, v |-> v]
    ELSE LET k == LargestFrom(n, d, i + 1, i)
         IN  eigensort_from(n,
                 [d EXCEPT ![i + 1] = d[k + 1], ![k + 1] = d[i + 1]],
                 [x \in 1..(n * n) |->
                     LET row == (x - 1) \div n
                         col == (x - 1) % n
                     IN  IF col = i THEN At(v, row * n + k)
                         ELSE IF col = k THEN At(v, row * n + i)
                         ELSE v[x]],
                 i + 1)

eigensort(n, d, v) == eigensort_from(n, d, v, 0)

(* Computed_field_eigenvalues::evaluate without the call of eigensort *)
Computed_field_eigenvalues_evaluate_unsorted(fs, c, f) ==
    LET r == Computed_field_evaluate(fs, c, fs[f].source_fields[1])
        sourceCache == r.valueCache
        valueCache == r.cache.valueCaches[f]
        n == fs[f].number_of_components
        jacobi == Jacobi_eigenanalysis(n,
                      [i \in 1..(n * n) |-> sourceCache.values[i]])
    IN  IF sourceCache.exists
        THEN Written(r.cache, f,
                 [valueCache EXCEPT !.a = jacobi.a, !.values = jacobi.d,
                                    !.v = jacobi.v],
                 jacobi.ok)
        ELSE Written(r.cache, f, valueCache, FALSE)

Computed_field_eigenvalues_evaluate(fs, c, f) ==
    LET r == Computed_field_evaluate(fs, c, fs[f].source_fields[1])
        sourceCache == r.valueCache
        valueCache == r.cache.valueCaches[f]
        n == fs[f].number_of_components
        jacobi == Jacobi_eigenanalysis(n,
                      [i \in 1..(n * n) |-> sourceCache.values[i]])
        sorted == eigensort(n, jacobi.d, jacobi.v)
    IN  IF sourceCache.exists
        THEN IF jacobi.ok
             THEN Written(r.cache, f,
                      [valueCache EXCEPT !.a = jacobi.a, !.values = sorted.d,
                                         !.v = sorted.v],
                      sorted.ok)
             ELSE Written(r.cache, f,
                      [valueCache EXCEPT !.a = jacobi.a, !.values = jacobi.d,
                                         !.v = jacobi.v],
                      FALSE)
        ELSE Written(r.cache, f, valueCache, FALSE)

(* Computed_field_eigenvectors::evaluate returning the vectors down the   *)
(* columns of the field values, as they are in v                           *)
Computed_field_eigenvectors_evaluate_columns(fs, c, f) ==
    LET r == Computed_field_evaluate(fs, c, fs[f].source_fields[1])
        eigenvalueCache == r.valueCache
        valueCache == r.cache.valueCaches[f]
        n == fs[fs[f].source_fields[1]].number_of_components
    IN  IF eigenvalueCache.exists
        THEN Written(r.cache, f,
                 [valueCache EXCEPT
                     !.values = [x \in 1..Len(@) |->
                        IF x - 1 < n * n THEN eigenvalueCache.v[x]
                        ELSE @[x]]],
                 TRUE)
        ELSE Written(r.cache, f, valueCache, FALSE)

Computed_field_eigenvectors_evaluate(fs, c, f) ==
    LET r == Computed_field_evaluate(fs, c, fs[f].source_fields[1])
        eigenvalueCache == r.valueCache
        valueCache == r.cache.valueCaches[f]
        n == fs[fs[f].source_fields[1]].number_of_components
    IN  IF eigenvalueCache.exists
        THEN LET v == eigenvalueCache.v
             IN  Written(r.cache, f,
                     [valueCache EXCEPT
                         !.values = [x \in 1..Len(@) |->
                            IF x - 1 < n * n
                            THEN LET i == (x - 1) \div n
                                     j == (x - 1) % n
                                 IN  At(v, j * n + i)
                            ELSE @[x]]],
                     TRUE)
        ELSE Written(r.cache, f, valueCache, FALSE)

(* The n x n matrix a with rows r1 and r2 exchanged *)
SwapRows(n, a, r1, r2) ==
    [x \in 1..(n * n) |->
        LET i == (x - 1) \div n
            j == (x - 1) % n
        IN  IF i = r1 THEN At(a, r2 * n + j)
            ELSE IF i = r2 THEN At(a, r1 * n + j)
            ELSE a[x]]

(* the row from r on, or else best, whose entry in column k has the       *)
(* largest magnitude                                                       *)
RECURSIVE PivotRow(_, _, _, _, _)
PivotRow(n, a, k, r, best) ==
    IF r >= n THEN best
    ELSE PivotRow(n, a, k, r + 1,
             IF RLess(RAbs(At(a, best * n + k)), RAbs(At(a, r * n + k)))
             THEN r ELSE best)

(* fabs(x) < singular_tolerance: the tolerance 1.0e-12 is smaller than    *)
(* the magnitude of every value other than zero that the matrices of the   *)
(* model produce                                                           *)
BelowTolerance(x) == x[1] = 0

(* LU decomposition with partial pivoting from column k on; d is the      *)
(* parity of the row exchanges                                             *)
RECURSIVE LU_decompose_from(_, _, _, _, _)
LU_decompose_from(n, a, indx, d, k) ==
    IF k = n THEN [ok |-> TRUE, a |-> a, indx |-> indx, d |-> d]
    ELSE LET p == PivotRow(n, a, k, k + 1, k)
             s == SwapRows(n, a, k, p)
             pivot == At(s, k * n + k)
         IN  IF BelowTolerance(pivot)
             THEN [ok |-> FALSE, a |-> a, indx |-> indx, d |-> d]
             ELSE LU_decompose_from(n,
                    [x \in 1..(n * n) |->
                        LET i == (x - 1) \div n
                            j == (x - 1) % n
                        IN  IF i > k /\ j = k THEN RDiv(s[x], pivot)
                            ELSE IF i > k /\ j > k
                            THEN RSub(s[x],
                                      RMul(RDiv(At(s, i * n + k), pivot),
                                           At(s, k * n + j)))
                            ELSE s[x]],
                    [indx EXCEPT ![k + 1] = p],
                    IF p = k THEN d ELSE -d, k + 1)

LU_decompose(n, a, indx) == LU_decompose_from(n, a, indx, 1, 0)

(* the right hand side b with the row exchanges of indx applied *)
RECURSIVE LU_permute(_, _, _, _)
LU_permute(n, indx, b, k) ==
    IF k = n THEN b
    ELSE LU_permute(n, indx,
             [b EXCEPT ![k + 1] = b[indx[k + 1] + 1],
                       ![indx[k + 1] + 1] = b[k + 1]], k + 1)

(* forward substitution with the unit lower triangle of a, from row i on *)
RECURSIVE LU_forward(_, _, _, _)
LU_forward(n, a, b, i) ==
    IF i = n THEN b
    ELSE LU_forward(n, a,
             [b EXCEPT ![i + 1] =
                 RSub(@, RSum([j \in 1..i |->
                                 RMul(At(a, i * n + j - 1), b[j])]))],
             i + 1)

(* back substitution with the upper triangle of a, from row i up *)
RECURSIVE LU_backward(_, _, _, _)
LU_backward(n, a, b, i) ==
    IF i < 0 THEN b
    ELSE LU_backward(n, a,
             [b EXCEPT ![i + 1] =
                 RDiv(RSub(@, RSum([j \in 1..(n - 1 - i) |->
                                      RMul(At(a, i * n + i + j),
                                           b[i + j + 1])])),
                      At(a, i * n + i))],
             i - 1)

(* solves a x = b for the decomposed matrix a; fails on a zero diagonal *)
LU_backsubstitute(n, a, indx, b) ==
    IF \A i \in 0..(n - 1) : At(a, i * n + i)[1] # 0
    THEN [ok |-> TRUE,
          b |-> LU_backward(n, a,
                    LU_forward(n, a, LU_permute(n, indx, b, 0), 0), n - 1)]
    ELSE [ok |-> FALSE, b |-> b]

(* the value cache after columns i to n - 1 of the inverse have been      *)
(* solved for, and whether every back substitution succeeded               *)
RECURSIVE Computed_field_matrix_invert_columns(_, _)
Computed_field_matrix_invert_columns(valueCache, i) ==
    LET n == valueCache.n
        e == [j \in 1..n |-> IF j - 1 = i THEN R(1) ELSE R(0)]
        r == LU_backsubstitute(n, valueCache.a, valueCache.indx, e)
    IN  IF i = n THEN [valueCache |-> valueCache, ok |-> TRUE]
        ELSE IF r.ok
        THEN Computed_field_matrix_invert_columns(
                 [valueCache EXCEPT
                     !.b = r.b,
                     !.values = [x \in 1..Len(@) |->
                        IF x - 1 < n * n /\ (x - 1) % n = i
                        THEN At(r.b, (x - 1) \div n) ELSE @[x]]],
                 i + 1)
        ELSE [valueCache |-> [valueCache EXCEPT !.b = e], ok |-> FALSE]

(* Computed_field_matrix_invert::evaluate going on to the back            *)
(* substitutions whatever LU_decompose returned                            *)
Computed_field_matrix_invert_evaluate_unchecked(fs, c, f) ==
    LET r == Computed_field_evaluate(fs, c, fs[f].source_fields[1])
        sourceCache == r.valueCache
        valueCache == r.cache.valueCaches[f]
        n == valueCache.n
        lu == LU_decompose(n, [i \in 1..(n * n) |-> sourceCache.values[i]],
                  valueCache.indx)
    IN  IF sourceCache.exists
        THEN Written(r.cache, f,
                 [valueCache EXCEPT
                     !.a = lu.a, !.indx = lu.indx,
                     !.values = [x \in 1..Len(@) |->
                        LU_backward(n, lu.a,
                            LU_forward(n, lu.a,
                                LU_permute(n, lu.indx,
                                    [j \in 1..n |->
                                        IF j - 1 = (x - 1) % n
                                        THEN R(1) ELSE R(0)], 0), 0),
                            n - 1)[(x - 1) \div n + 1]]],
                 TRUE)
        ELSE Written(r.cache, f, valueCache, FALSE)

(* Computed_field_matrix_invert::evaluate writing the solution of         *)
(* a x = e_i to row i of the values                                        *)
Computed_field_matrix_invert_evaluate_rows(fs, c, f) ==
    LET r == Computed_field_evaluate(fs, c, fs[f].source_fields[1])
        sourceCache == r.valueCache
        valueCache == r.cache.valueCaches[f]
        n == valueCache.n
        lu == LU_decompose(n, [i \in 1..(n * n) |-> sourceCache.values[i]],
                  valueCache.indx)
        decomposed == [valueCache EXCEPT !.a = lu.a, !.indx = lu.indx]
        solved == Computed_field_matrix_invert_columns(decomposed, 0)
    IN  IF sourceCache.exists /\ lu.ok /\ solved.ok
        THEN Written(r.cache, f,
                 [solved.valueCache EXCEPT
                     !.values = [x \in 1..Len(@) |->
                        At(@, ((x - 1) % n) * n + (x - 1) \div n)]],
                 TRUE)
        ELSE Written(r.cache, f, valueCache, FALSE)

Computed_field_matrix_invert_evaluate(fs, c, f) ==
    LET r == Computed_field_evaluate(fs, c, fs[f].source_fields[1])
        sourceCache == r.valueCache
        valueCache == r.cache.valueCaches[f]
        n == valueCache.n
        lu == LU_decompose(n, [i \in 1..(n * n) |-> sourceCache.values[i]],
                  valueCache.indx)
        decomposed == [valueCache EXCEPT !.a = lu.a, !.indx = lu.indx]
        solved == Computed_field_matrix_invert_columns(decomposed, 0)
    IN  IF sourceCache.exists
        THEN IF lu.ok
             THEN Written(r.cache, f, solved.valueCache, solved.ok)
             ELSE Written(r.cache, f, decomposed, FALSE)
        ELSE Written(r.cache, f, valueCache, FALSE)

(* Computed_field_transpose_values transposing the values and never the   *)
(* derivatives                                                             *)
Computed_field_transpose_values_only(fs, f, valueCache, sourceCache, number_of_xi) ==
    LET m == fs[f].source_number_of_rows
        n == fs[fs[f].source_fields[1]].number_of_components \div m
    IN  [valueCache EXCEPT
           !.values = [x \in 1..Len(@) |->
              IF x - 1 < n * m
              THEN At(sourceCache.values,
                      ((x - 1) % m) * n + ((x - 1) \div m))
              ELSE @[x]],
           !.derivatives_valid = FALSE]

(* Computed_field_transpose_values without the else branch: the flag is   *)
(* set when derivatives are written and otherwise left as it was           *)
Computed_field_transpose_values_kept(fs, f, valueCache, sourceCache, number_of_xi) ==
    LET m == fs[f].source_number_of_rows
        n == fs[fs[f].source_fields[1]].number_of_components \div m
    IN  [valueCache EXCEPT
           !.values = [x \in 1..Len(@) |->
              IF x - 1 < n * m
              THEN At(sourceCache.values,
                      ((x - 1) % m) * n + ((x - 1) \div m))
              ELSE @[x]],
           !.derivatives_valid =
              IF number_of_xi # 0 /\ sourceCache.derivatives_valid
              THEN TRUE ELSE @]

(* the body of Computed_field_transpose::evaluate once the source has     *)
(* evaluated: the value cache as written                                   *)
Computed_field_transpose_values(fs, f, valueCache, sourceCache, number_of_xi) ==
    LET m == fs[f].source_number_of_rows
        n == fs[fs[f].source_fields[1]].number_of_components \div m
        source_values == sourceCache.values
    IN  [valueCache EXCEPT
           !.values = [x \in 1..Len(@) |->
              IF x - 1 < n * m
              THEN LET i == (x - 1) \div m
                       j == (x - 1) % m
                   IN  At(source_values, j * n + i)
              ELSE @[x]],
           !.derivatives =
              IF number_of_xi # 0 /\ sourceCache.derivatives_valid
              THEN [x \in 1..Len(@) |->
                 IF x - 1 < number_of_xi * n * m
                 THEN LET i == ((x - 1) \div number_of_xi) \div m
                          j == ((x - 1) \div number_of_xi) % m
                          d == (x - 1) % number_of_xi
                      IN  At(sourceCache.derivatives,
                             number_of_xi * (j * n + i) + d)
                 ELSE @[x]]
              ELSE @,
           !.derivatives_valid =
              (number_of_xi # 0 /\ sourceCache.derivatives_valid)]

(* Computed_field_transpose::evaluate reading the source's value cache    *)
(* as it is (getValueCache) instead of evaluating the source               *)
Computed_field_transpose_evaluate_cached(fs, c, f) ==
    LET sourceCache == c.valueCaches[fs[f].source_fields[1]]
        valueCache == c.valueCaches[f]
    IN  IF sourceCache.exists
        THEN Written(c, f,
               Computed_field_transpose_values(fs, f, valueCache, sourceCache,
                   c.requestedDerivatives),
               TRUE)
        ELSE Written(c, f, valueCache, FALSE)

Computed_field_transpose_evaluate(fs, c, f) ==
    LET r == Computed_field_evaluate(fs, c, fs[f].source_fields[1])
        sourceCache == r.valueCache
        valueCache == r.cache.valueCaches[f]
    IN  IF sourceCache.exists
        THEN Written(r.cache, f,
               Computed_field_transpose_values(fs, f, valueCache, sourceCache,
                   c.requestedDerivatives),
               TRUE)
        ELSE Written(r.cache, f, valueCache, FALSE)

(* Computed_field_matrix_multiply_values with the derivative of the       *)
(* second factor only, a*db without da*b                                   *)
Computed_field_matrix_multiply_values_second(fs, f, valueCache, source1Cache, source2Cache, number_of_xi) ==
    LET m == fs[f].number_of_rows
        s == fs[fs[f].source_fields[1]].number_of_components \div m
        n == fs[fs[f].source_fields[2]].number_of_components \div s
        a == source1Cache.values
        b == source2Cache.values
        bd == source2Cache.derivatives
        with == /\ number_of_xi # 0
                /\ source1Cache.derivatives_valid
                /\ source2Cache.derivatives_valid
    IN  [valueCache EXCEPT
           !.values = [x \in 1..Len(@) |->
              IF x - 1 < m * n
              THEN RSum([k \in 1..s |->
                      RMul(At(a, ((x - 1) \div n) * s + k - 1),
                           At(b, (k - 1) * n + ((x - 1) % n)))])
              ELSE @[x]],
           !.derivatives =
              IF with
              THEN [x \in 1..Len(@) |->
                 IF x - 1 < number_of_xi * m * n
                 THEN LET i == ((x - 1) \div number_of_xi) \div n
                          j == ((x - 1) \div number_of_xi) % n
                          d == (x - 1) % number_of_xi
                      IN  RSum([k \in 1..s |->
                            RMul(At(a, i * s + k - 1),
                                 At(bd, number_of_xi
                                     * ((k - 1) * n + j) + d))])
                 ELSE @[x]]
              ELSE @,
           !.derivatives_valid = with]

(* the body of Computed_field_matrix_multiply::evaluate once both sources *)
(* have evaluated: the value cache as written                              *)
Computed_field_matrix_multiply_values(fs, f, valueCache, source1Cache, source2Cache, number_of_xi) ==
    LET m == fs[f].number_of_rows
        s == fs[fs[f].source_fields[1]].number_of_components \div m
        n == fs[fs[f].source_fields[2]].number_of_components \div s
        a == source1Cache.values
        b == source2Cache.values
        ad == source1Cache.derivatives
        bd == source2Cache.derivatives
        with == /\ number_of_xi # 0
                /\ source1Cache.derivatives_valid
                /\ source2Cache.derivatives_valid
    IN  [valueCache EXCEPT
           !.values = [x \in 1..Len(@) |->
              IF x - 1 < m * n
              THEN LET i == (x - 1) \div n
                       j == (x - 1) % n
                   IN  RSum([k \in 1..s |->
                          RMul(At(a, i * s + k - 1),
                               At(b, (k - 1) * n + j))])
              ELSE @[x]],
           !.derivatives =
              IF with
              THEN [x \in 1..Len(@) |->
                 IF x - 1 < number_of_xi * m * n
                 THEN LET i == ((x - 1) \div number_of_xi) \div n
                          j == ((x - 1) \div number_of_xi) % n
                          d == (x - 1) % number_of_xi
                      IN  RSum([k \in 1..s |->
                            RAdd(RMul(At(a, i * s + k - 1),
                                      At(bd, number_of_xi
                                          * ((k - 1) * n + j) + d)),
                                 RMul(At(ad, number_of_xi
                                          * (i * s + k - 1) + d),
                                      At(b, (k - 1) * n + j)))])
                 ELSE @[x]]
              ELSE @,
           !.derivatives_valid = with]

(* Computed_field_matrix_multiply::evaluate testing source1Cache only and *)
(* reading the second source's value cache whatever its evaluate returned  *)
Computed_field_matrix_multiply_evaluate_first(fs, c, f) ==
    LET r1 == Computed_field_evaluate(fs, c, fs[f].source_fields[1])
        r2 == Computed_field_evaluate(fs, r1.cache, fs[f].source_fields[2])
        source1Cache == r1.valueCache
        source2Cache == r2.cache.valueCaches[fs[f].source_fields[2]]
        valueCache == r2.cache.valueCaches[f]
    IN  IF source1Cache.exists
        THEN Written(r2.cache, f,
               Computed_field_matrix_multiply_values(fs, f, valueCache,
                   source1Cache, source2Cache, c.requestedDerivatives),
               TRUE)
        ELSE Written(r2.cache, f, valueCache, FALSE)

(* Computed_field_matrix_multiply::evaluate calling the second source's   *)
(* core evaluate itself instead of the source field's evaluate             *)
Computed_field_matrix_multiply_evaluate_direct(fs, c, f) ==
    LET source2 == fs[f].source_fields[2]
        r1 == Computed_field_evaluate(fs, c, fs[f].source_fields[1])
        k2 == Computed_field_core_evaluate(fs,
                  [r1.cache EXCEPT !.valueCaches[source2] =
                       getValueCache(fs, r1.cache, source2)], source2)
        source1Cache == r1.valueCache
        source2Cache == IF k2.ok THEN k2.cache.valueCaches[source2]
                        ELSE NoCache
        valueCache == k2.cache.valueCaches[f]
    IN  IF source1Cache.exists /\ source2Cache.exists
        THEN Written(k2.cache, f,
               Computed_field_matrix_multiply_values(fs, f, valueCache,
                   source1Cache, source2Cache, c.requestedDerivatives),
               TRUE)
        ELSE Written(k2.cache, f, valueCache, FALSE)

Computed_field_matrix_multiply_evaluate(fs, c, f) ==
    LET r1 == Computed_field_evaluate(fs, c, fs[f].source_fields[1])
        r2 == Computed_field_evaluate(fs, r1.cache, fs[f].source_fields[2])
        source1Cache == r1.valueCache
        source2Cache == r2.valueCache
        valueCache == r2.cache.valueCaches[f]
    IN  IF source1Cache.exists /\ source2Cache.exists
        THEN Written(r2.cache, f,
               Computed_field_matrix_multiply_values(fs, f, valueCache,
                   source1Cache, source2Cache, c.requestedDerivatives),
               TRUE)
        ELSE Written(r2.cache, f, valueCache, FALSE)

Computed_field_projection_evaluate(fs, c, f) ==
    LET source1 == fs[f].source_fields[1]
        source2 == fs[f].source_fields[2]
        r1 == Computed_field_evaluate(fs, c, source1)
        r2 == Computed_field_evaluate(fs, r1.cache, source2)
        source1Cache == r1.valueCache
        source2Cache == r2.valueCache
        valueCache == r2.cache.valueCaches[f]
        nc == fs[f].number_of_components
        coordinate_components == fs[source1].number_of_components
        projection_matrix == source2Cache.values
        number_of_xi == c.requestedDerivatives
        with == /\ number_of_xi # 0
                /\ source1Cache.derivatives_valid
                /\ source2Cache.derivatives_valid
        (* row i of the matrix times the source with a 1 appended *)
        Row(i) ==
            RAdd(RSum([j \in 1..coordinate_components |->
                    RMul(At(projection_matrix,
                            i * (coordinate_components + 1) + j - 1),
                         At(source1Cache.values, j - 1))]),
                 At(projection_matrix,
                    i * (coordinate_components + 1) + coordinate_components))
        (* row i of the matrix times derivative k of the source *)
        RowD(i, k) ==
            RSum([j \in 1..coordinate_components |->
               RMul(At(projection_matrix,
                       i * (coordinate_components + 1) + j - 1),
                    At(source1Cache.derivatives, (j - 1) * number_of_xi + k))])
        perspective == Row(nc)
        dh1dxi(k) ==
            RMul(RDiv(R(-1), RMul(perspective, perspective)), RowD(nc, k))
    IN  IF source1Cache.exists /\ source2Cache.exists
        THEN Written(r2.cache, f,
               [valueCache EXCEPT
                  !.values = [x \in 1..Len(@) |->
                     IF x - 1 < nc THEN RDiv(Row(x - 1), perspective)
                     ELSE @[x]],
                  !.derivatives =
                     IF with
                     THEN [x \in 1..Len(@) |->
                        IF x - 1 < nc * number_of_xi
                        THEN LET i == (x - 1) \div number_of_xi
                                 k == (x - 1) % number_of_xi
                             IN  RAdd(RDiv(RowD(i, k), perspective),
                                      RMul(Row(i), dh1dxi(k)))
                        ELSE @[x]]
                     ELSE @,
                  !.derivatives_valid = with],
               TRUE)
        ELSE Written(r2.cache, f, valueCache, FALSE)

(* Assignment.  An assign of the values in the value cache of field f     *)
(* returns [fields |-> the fields afterwards, cache |-> the field cache    *)
(* afterwards, result |-> the FieldAssignmentResult]                       *)

FIELD_ASSIGNMENT_RESULT_FAIL == "FIELD_ASSIGNMENT_RESULT_FAIL"
FIELD_ASSIGNMENT_RESULT_ALL_VALUES_SET == "FIELD_ASSIGNMENT_RESULT_ALL_VALUES_SET"

NodeLocations == Locations \ ElementLocations

RECURSIVE Computed_field_assign(_, _, _)

(* sets the parameters of the FE_field at a node where it is defined; the *)
(* change of the field starts a new generation of the value caches         *)
Computed_field_finite_element_assign(fs, c, f) ==
    IF c.location \in NodeLocations /\ c.location \in fs[f].defined_at
    THEN [fields |-> [fs EXCEPT ![f].parameters[c.location] =
                         c.valueCaches[f].values],
          cache |-> [c EXCEPT !.locationCounter = @ + 1,
                              !.bodyRuns = [g \in DOMAIN @ |-> 0]],
          result |-> FIELD_ASSIGNMENT_RESULT_ALL_VALUES_SET]
    ELSE [fields |-> fs, cache |-> c, result |-> FIELD_ASSIGNMENT_RESULT_FAIL]

(* sets the values of the node value label and version at a node of the   *)
(* finite element field; the change starts a new generation of the value   *)
(* caches                                                                  *)
Computed_field_node_value_assign(fs, c, f) ==
    LET fe == fs[f].source_fields[1]
    IN  IF c.location \in NodeLocations /\ c.location \in fs[fe].defined_at
        THEN [fields |-> [fs EXCEPT
                            ![fe].node_values[c.location][NodeValueLabel(fs[f])]
                                = c.valueCaches[f].values],
              cache |-> [c EXCEPT !.locationCounter = @ + 1,
                                  !.bodyRuns = [g \in DOMAIN @ |-> 0]],
              result |-> FIELD_ASSIGNMENT_RESULT_ALL_VALUES_SET]
        ELSE [fields |-> fs, cache |-> c,
              result |-> FIELD_ASSIGNMENT_RESULT_FAIL]

(* the end of Computed_field_projection::assign: when the decomposition    *)
(* and the back substitution succeeded and result[3] is not zero, the      *)
(* result divided by result[3] goes to the coordinate field's value cache, *)
(* which is then assigned                                                  *)
Computed_field_projection_assign_result(fs, c1, f, lu_ok, solved) ==
    LET coordinateField == fs[f].source_fields[1]
    IN  IF lu_ok /\ solved.ok /\ R(0) # At(solved.b, 3)
        THEN Computed_field_assign(fs,
                 [c1 EXCEPT !.valueCaches[coordinateField] =
                     [getValueCache(fs, c1, coordinateField) EXCEPT
                         !.values[1] = RDiv(At(solved.b, 0), At(solved.b, 3)),
                         !.values[2] = RDiv(At(solved.b, 1), At(solved.b, 3)),
                         !.values[3] = RDiv(At(solved.b, 2), At(solved.b, 3))]],
                 coordinateField)
        ELSE [fields |-> fs, cache |-> c1,
              result |-> FIELD_ASSIGNMENT_RESULT_FAIL]

(* the back substitution of the homogeneous values {v1, v2, v3, 1} of the  *)
(* value cache of f with the decomposed matrix lu                          *)
Computed_field_projection_assign_decomposed(fs, c1, f, lu) ==
    Computed_field_projection_assign_result(fs, c1, f, lu.ok,
        LU_backsubstitute(4, lu.a, lu.indx,
            <<c1.valueCaches[f].values[1], c1.valueCaches[f].values[2],
              c1.valueCaches[f].values[3], R(1)>>))

(* what Computed_field_projection::assign does once the projection matrix *)
(* has evaluated into projectionCache, c being the field cache then: the   *)
(* derivatives of f become invalid and the matrix is decomposed            *)
Computed_field_projection_assign_solve(fs, c, f, projectionCache) ==
    Computed_field_projection_assign_decomposed(fs,
        [c EXCEPT !.valueCaches[f].derivatives_valid = FALSE], f,
        LU_decompose(4, [i \in 1..16 |-> projectionCache.values[i]],
            <<0, 0, 0, 0>>))

(* Computed_field_projection::assign without the test of matrix_rows *)
Computed_field_projection_assign_any_rows(fs, c, f) ==
    IF fs[f].number_of_components = 3 /\ fs[f].matrix_columns = 4
    THEN LET r == Computed_field_evaluate(fs, c, fs[f].source_fields[2])
         IN  IF r.valueCache.exists
             THEN Computed_field_projection_assign_solve(fs, r.cache, f,
                      r.valueCache)
             ELSE [fields |-> fs, cache |-> r.cache,
                   result |-> FIELD_ASSIGNMENT_RESULT_FAIL]
    ELSE [fields |-> fs, cache |-> c, result |-> FIELD_ASSIGNMENT_RESULT_FAIL]

(* Computed_field_projection::assign without the test of result[3] *)
Computed_field_projection_assign_any_result(fs, c, f) ==
    IF /\ fs[f].number_of_components = 3
       /\ fs[f].matrix_rows = 4 /\ fs[f].matrix_columns = 4
    THEN LET coordinateField == fs[f].source_fields[1]
             r == Computed_field_evaluate(fs, c, fs[f].source_fields[2])
             c1 == [r.cache EXCEPT !.valueCaches[f].derivatives_valid = FALSE]
             lu == LU_decompose(4, [i \in 1..16 |-> r.valueCache.values[i]],
                       <<0, 0, 0, 0>>)
             result == LU_backsubstitute(4, lu.a, lu.indx,
                           <<c1.valueCaches[f].values[1],
                             c1.valueCaches[f].values[2],
                             c1.valueCaches[f].values[3], R(1)>>).b
         IN  IF r.valueCache.exists /\ lu.ok
             THEN Computed_field_assign(fs,
                      [c1 EXCEPT !.valueCaches[coordinateField] =
                          [getValueCache(fs, c1, coordinateField) EXCEPT
                              !.values[1] =
                                  RDiv(At(result, 0), At(result, 3)),
                              !.values[2] =
                                  RDiv(At(result, 1), At(result, 3)),
                              !.values[3] =
                                  RDiv(At(result, 2), At(result, 3))]],
                      coordinateField)
             ELSE [fields |-> fs, cache |-> r.cache,
                   result |-> FIELD_ASSIGNMENT_RESULT_FAIL]
    ELSE [fields |-> fs, cache |-> c, result |-> FIELD_ASSIGNMENT_RESULT_FAIL]

(* Computed_field_projection::assign after the evaluation r of the        *)
(* projection matrix field                                                 *)
Computed_field_projection_assign_evaluated(fs, f, r) ==
    IF r.valueCache.exists
    THEN Computed_field_projection_assign_solve(fs, r.cache, f, r.valueCache)
    ELSE [fields |-> fs, cache |-> r.cache,
          result |-> FIELD_ASSIGNMENT_RESULT_FAIL]

Computed_field_projection_assign(fs, c, f) ==
    IF /\ fs[f].number_of_components = 3
       /\ fs[f].matrix_rows = 4 /\ fs[f].matrix_columns = 4
    THEN Computed_field_projection_assign_evaluated(fs, f,
             Computed_field_evaluate(fs, c, fs[f].source_fields[2]))
    ELSE [fields |-> fs, cache |-> c, result |-> FIELD_ASSIGNMENT_RESULT_FAIL]

(* Computed_field::assign: the assign of the field's kind; a kind without *)
(* one fails                                                               *)
Computed_field_assign(fs, c, f) ==
    CASE fs[f].core = "finite_element" ->
            Computed_field_finite_element_assign(fs, c, f)
      [] fs[f].core = "projection" ->
            Computed_field_projection_assign(fs, c, f)
      [] fs[f].core = "node_value" ->
            Computed_field_node_value_assign(fs, c, f)
      [] OTHER ->
            [fields |-> fs, cache |-> c,
             result |-> FIELD_ASSIGNMENT_RESULT_FAIL]

(* cmzn_field_assign_real: the values go to the value cache of f, which   *)
(* is then assigned                                                        *)
cmzn_field_assign_real(fs, c, f, values) ==
    Computed_field_assign(fs,
        [c EXCEPT !.valueCaches[f] =
            [getValueCache(fs, c, f) EXCEPT !.values = values]], f)

(* core->evaluate(cache, valueCache): the evaluate body of the field's    *)
(* kind; bodyRuns counts the calls                                         *)
Computed_field_core_evaluate(fs, c0, f) ==
    LET c == [c0 EXCEPT !.bodyRuns[f] = Count(@)]
    IN  CASE fs[f].core = "finite_element" ->
                Computed_field_finite_element_evaluate(fs, c, f)
          [] fs[f].core = "determinant" ->
                Computed_field_determinant_evaluate(fs, c, f)
          [] fs[f].core = "eigenvalues" ->
                Computed_field_eigenvalues_evaluate(fs, c, f)
          [] fs[f].core = "eigenvectors" ->
                Computed_field_eigenvectors_evaluate(fs, c, f)
          [] fs[f].core = "matrix_invert" ->
                Computed_field_matrix_invert_evaluate(fs, c, f)
          [] fs[f].core = "transpose" ->
                Computed_field_transpose_evaluate(fs, c, f)
          [] fs[f].core = "matrix_multiply" ->
                Computed_field_matrix_multiply_evaluate(fs, c, f)
          [] fs[f].core = "projection" ->
                Computed_field_projection_evaluate(fs, c, f)
          [] fs[f].core = "quaternion_to_matrix" ->
                Computed_field_quaternion_to_matrix_evaluate(fs, c, f)
          [] fs[f].core = "matrix_to_quaternion" ->
                Computed_field_matrix_to_quaternion_evaluate(fs, c, f)
          [] fs[f].core = "node_value" ->
                Computed_field_node_value_evaluate(fs, c, f)
          [] OTHER -> Written(c, f, c.valueCaches[f], FALSE)

(* Computed_field::evaluate: the cached values when they are of the       *)
(* current location, else the core's evaluate, guarded against re-entry    *)
Computed_field_evaluate(fs, c, f) ==
    LET c0 == [c EXCEPT !.valueCaches[f] = getValueCache(fs, c, f)]
    IN  IF CacheValid(c0, f)
        THEN [cache |-> c0, valueCache |-> c0.valueCaches[f]]
        ELSE IF f \in c0.computing
        THEN [cache |-> c0, valueCache |-> NoCache]
        ELSE LET c1 == [c0 EXCEPT !.computing = @ \cup {f}]
                 r == Computed_field_core_evaluate(fs, c1, f)
                 c2 == [r.cache EXCEPT !.computing = @ \ {f}]
                 c3 == [c2 EXCEPT !.valueCaches[f].evaluationCounter =
                                      c2.locationCounter]
             IN  IF r.ok
                 THEN [cache |-> c3, valueCache |-> c3.valueCaches[f]]
                 ELSE [cache |-> c2, valueCache |-> NoCache]

-----------------------------------------------------------------------------
(* The field module and its manager.  A region w is the record             *)
(*   [fields, replace_field, cache_level, changed, delivered,              *)
(*    locationCounter, valueCaches, bodyRuns];                             *)
(* a create call returns [w |-> the region afterwards,                     *)
(*                        field |-> the field's id, or 0 for no field]     *)

NoChange == [fields |-> {}, redefined |-> {}]

(* what the notifier received during one call *)
NoDelivery == [count |-> 0, batch |-> {}, redefined |-> {}]

(* the name of no field: NULL *)
NoName == ""

(* a field cache after a change of a field's values: a new generation of   *)
(* its value caches                                                        *)
FieldChanged_unnoticed(c) == c

FieldChanged(c) ==
    [c EXCEPT !.locationCounter = @ + 1,
              !.bodyRuns = [g \in DOMAIN @ |-> 0]]

(* sends the recorded changes to the notifier as one batch; a changed     *)
(* definition invalidates the value caches by one new generation           *)
ManagerUpdate(w) ==
    IF w.changed.fields = {} THEN w
    ELSE [w EXCEPT
            !.delivered = [count |-> @.count + 1, batch |-> w.changed.fields,
                           redefined |-> w.changed.redefined],
            !.changed = NoChange,
            !.locationCounter =
                IF w.changed.redefined # {} THEN @ + 1 ELSE @,
            !.bodyRuns =
                IF w.changed.redefined # {} THEN [f \in DOMAIN @ |-> 0] ELSE @,
            !.otherCache =
                IF w.changed.redefined # {} THEN FieldChanged(@) ELSE @]

(* ManagedObjectChange sending every change at once, cached or not *)
ManagedObjectChange_at_once(w, f, definition) ==
    ManagerUpdate([w EXCEPT !.changed =
                      [fields |-> @.fields \cup {f},
                       redefined |-> @.redefined \cup
                                        (IF definition THEN {f} ELSE {})]])

(* records a change of field f; sent at once unless changes are cached *)
ManagedObjectChange(w, f, definition) ==
    LET w1 == [w EXCEPT !.changed =
                  [fields |-> @.fields \cup {f},
                   redefined |-> @.redefined \cup
                                    (IF definition THEN {f} ELSE {})]]
    IN  IF w1.cache_level = 0 THEN ManagerUpdate(w1) ELSE w1

cmzn_fieldmodule_begin_change(w) == [w EXCEPT !.cache_level = @ + 1]

cmzn_fieldmodule_end_change(w) ==
    IF w.cache_level = 0 THEN w
    ELSE LET w1 == [w EXCEPT !.cache_level = @ - 1]
         IN  IF w1.cache_level = 0 THEN ManagerUpdate(w1) ELSE w1

cmzn_fieldmodule_set_replace_field(w, f) == [w EXCEPT !.replace_field = f]

(* the name, or the stem of the name, of the next field created *)
cmzn_fieldmodule_set_field_name(w, name) ==
    [w EXCEPT !.field_name = name]

cmzn_fieldmodule_get_field_name(w) == w.field_name

cmzn_fieldmodule_get_replace_field(w) == w.replace_field

FreeIds(w) == DOMAIN w.fields \ Managed(w.fields)

NewId(w) == CHOOSE f \in FreeIds(w) : \A g \in FreeIds(w) : f <= g

(* the names of the fields of the manager *)
Names(w) == {w.fields[g].name : g \in Managed(w.fields)}

RECURSIVE FirstUnique(_, _, _)
(* the first of stem1, stem2, ... from number k that no field has *)
FirstUnique(w, stem, k) ==
    IF stem \o ToString(k) \notin Names(w) THEN stem \o ToString(k)
    ELSE FirstUnique(w, stem, k + 1)

(* the name given to a new field whatever names are taken *)
UniqueName_taken(w, f) ==
    IF w.field_name = NoName THEN "temp" \o ToString(f) ELSE w.field_name

(* the name of a new field f: the name set for the next field when no      *)
(* field has it, else the first free of that name followed by a number;    *)
(* temp followed by a number when no name was set                          *)
UniqueName(w, f) ==
    IF w.field_name = NoName THEN FirstUnique(w, "temp", f)
    ELSE IF w.field_name \notin Names(w) THEN w.field_name
    ELSE FirstUnique(w, w.field_name, 1)

(* Computed_field_create_generic redefining the field in the replace slot *)
(* without looking at what the new source fields depend on                 *)
Computed_field_create_generic_unchecked(w, number_of_components, source_fields, core) ==
    LET definition ==
            [core EXCEPT !.number_of_components = number_of_components,
                         !.source_fields = source_fields]
        w1 == [w EXCEPT !.replace_field = 0, !.field_name = NoName]
        target == w.replace_field
    IN  IF target # 0
        THEN [w |-> ManagedObjectChange(
                      [w1 EXCEPT
                         !.fields[target] =
                            [definition EXCEPT !.name = w.fields[target].name],
                         !.valueCaches[target] = NoCache],
                      target, TRUE),
              field |-> target]
        ELSE IF FreeIds(w) = {} THEN [w |-> w1, field |-> 0]
        ELSE LET f == NewId(w)
             IN  [w |-> ManagedObjectChange(
                           [w1 EXCEPT !.fields[f] =
                               [definition EXCEPT !.name = UniqueName(w, f)]],
                           f, FALSE),
                  field |-> f]

(* Computed_field_create_generic recording a redefinition as a change     *)
(* that leaves the values of fields as they were                           *)
Computed_field_create_generic_unnoticed(w, number_of_components, source_fields, core) ==
    LET definition ==
            [core EXCEPT !.number_of_components = number_of_components,
                         !.source_fields = source_fields]
        w1 == [w EXCEPT !.replace_field = 0, !.field_name = NoName]
        target == w.replace_field
    IN  IF target # 0
        THEN IF \/ \E i \in DOMAIN source_fields :
                       DependsOn(w.fields, source_fields[i], target)
                \/ /\ Dependents(w.fields, target) # {}
                   /\ w.fields[target].number_of_components
                         # number_of_components
             THEN [w |-> w1, field |-> 0]
             ELSE [w |-> ManagedObjectChange(
                           [w1 EXCEPT
                              !.fields[target] =
                                 [definition EXCEPT
                                    !.name = w.fields[target].name],
                              !.valueCaches[target] = NoCache],
                           target, FALSE),
                   field |-> target]
        ELSE IF FreeIds(w) = {} THEN [w |-> w1, field |-> 0]
        ELSE LET f == NewId(w)
             IN  [w |-> ManagedObjectChange(
                           [w1 EXCEPT !.fields[f] =
                               [definition EXCEPT !.name = UniqueName(w, f)]],
                           f, FALSE),
                  field |-> f]

(* Creates the field, or redefines the field in the replace slot keeping  *)
(* its identity and name; the replace slot is cleared either way.  A       *)
(* redefinition is refused when a source depends on the replaced field,    *)
(* or when it changes the number of components of a field in use.          *)
Computed_field_create_generic(w, number_of_components, source_fields, core) ==
    LET definition ==
            [core EXCEPT !.number_of_components = number_of_components,
                         !.source_fields = source_fields]
        w1 == [w EXCEPT !.replace_field = 0, !.field_name = NoName]
        target == w.replace_field
    IN  IF target # 0
        THEN IF \/ \E i \in DOMAIN source_fields :
                       DependsOn(w.fields, source_fields[i], target)
                \/ /\ Dependents(w.fields, target) # {}
                   /\ w.fields[target].number_of_components
                         # number_of_components
             THEN [w |-> w1, field |-> 0]
             ELSE [w |-> ManagedObjectChange(
                           [w1 EXCEPT
                              !.fields[target] =
                                 [definition EXCEPT
                                    !.name = w.fields[target].name],
                              !.valueCaches[target] = NoCache],
                           target, TRUE),
                   field |-> target]
        ELSE IF FreeIds(w) = {} THEN [w |-> w1, field |-> 0]
        ELSE LET f == NewId(w)
             IN  [w |-> ManagedObjectChange(
                           [w1 EXCEPT !.fields[f] =
                               [definition EXCEPT !.name = UniqueName(w, f)]],
                           f, FALSE),
                  field |-> f]

NoFieldCreated(w) == [w |-> w, field |-> 0]

(* field argument f of a create call: the field, NoField for NULL *)
Arg(w, f) == IF f = 0 THEN NoField ELSE w.fields[f]

Cmiss_field_module_create_finite_element(w, number_of_components, fe_field, defined_at) ==
    IF 0 < number_of_components
    THEN Computed_field_create_generic(w, number_of_components, <<>>,
             Computed_field_finite_element(fe_field, defined_at))
    ELSE NoFieldCreated(w)

(* Cmiss_field_module_create_determinant for a square matrix of any size  *)
(* a field of the values of a node value label and version of a finite    *)
(* element field                                                           *)
Cmiss_field_module_create_node_value(w, field, nodal_value_type, version_number) ==
    IF field # 0 /\ w.fields[field].core = "finite_element"
    THEN Computed_field_create_generic(w,
             w.fields[field].number_of_components, <<field>>,
             Computed_field_node_value(w.fields[field].fe_field,
                 nodal_value_type, version_number))
    ELSE [w |-> w, field |-> 0]

Cmiss_field_module_create_determinant_any_size(w, source_field) ==
    IF /\ source_field # 0
       /\ Computed_field_is_square_matrix(Arg(w, source_field))
    THEN Computed_field_create_generic(w, 1, <<source_field>>,
             Computed_field_determinant)
    ELSE NoFieldCreated(w)

Cmiss_field_module_create_determinant(w, source_field) ==
    IF /\ source_field # 0
       /\ Computed_field_is_square_matrix(Arg(w, source_field))
       /\ Arg(w, source_field).number_of_components <= 9
    THEN Computed_field_create_generic(w, 1, <<source_field>>,
             Computed_field_determinant)
    ELSE NoFieldCreated(w)

Cmiss_field_module_create_eigenvalues(w, source_field) ==
    IF /\ source_field # 0
       /\ Computed_field_is_square_matrix(Arg(w, source_field))
    THEN Computed_field_create_generic(w,
             Computed_field_get_square_matrix_size(Arg(w, source_field)),
             <<source_field>>, Computed_field_eigenvalues)
    ELSE NoFieldCreated(w)

Computed_field_is_type_eigenvalues(fd) == fd.core = "eigenvalues"

Cmiss_field_module_create_eigenvectors(w, eigenvalues_field) ==
    IF /\ eigenvalues_field # 0
       /\ Computed_field_is_type_eigenvalues(Arg(w, eigenvalues_field))
    THEN LET n == Arg(w, eigenvalues_field).number_of_components
         IN  Computed_field_create_generic(w, n * n, <<eigenvalues_field>>,
                 Computed_field_eigenvectors)
    ELSE NoFieldCreated(w)

Cmiss_field_module_create_matrix_invert(w, source_field) ==
    IF /\ source_field # 0
       /\ Computed_field_is_square_matrix(Arg(w, source_field))
    THEN Computed_field_create_generic(w,
             Arg(w, source_field).number_of_components, <<source_field>>,
             Computed_field_matrix_invert)
    ELSE NoFieldCreated(w)

(* Cmiss_field_module_create_matrix_multiply without the test that the    *)
(* second source field fills whole columns                                 *)
Cmiss_field_module_create_matrix_multiply_any(w, number_of_rows, source_field1, source_field2) ==
    IF /\ 0 < number_of_rows
       /\ source_field1 # 0 /\ isNumerical(Arg(w, source_field1))
       /\ source_field2 # 0 /\ isNumerical(Arg(w, source_field2))
    THEN LET nc1 == Arg(w, source_field1).number_of_components
             nc2 == Arg(w, source_field2).number_of_components
             s == nc1 \div number_of_rows
         IN  IF /\ 0 = nc1 % number_of_rows
                /\ 0 < s
                /\ 0 < nc2 \div s
             THEN Computed_field_create_generic(w,
                      number_of_rows * (nc2 \div s),
                      <<source_field1, source_field2>>,
                      Computed_field_matrix_multiply(number_of_rows))
             ELSE NoFieldCreated(w)
    ELSE NoFieldCreated(w)

Cmiss_field_module_create_matrix_multiply(w, number_of_rows, source_field1, source_field2) ==
    IF /\ 0 < number_of_rows
       /\ source_field1 # 0 /\ isNumerical(Arg(w, source_field1))
       /\ source_field2 # 0 /\ isNumerical(Arg(w, source_field2))
    THEN LET nc1 == Arg(w, source_field1).number_of_components
             nc2 == Arg(w, source_field2).number_of_components
             s == nc1 \div number_of_rows
         IN  IF /\ 0 = nc1 % number_of_rows
                /\ 0 < s
                /\ 0 = nc2 % s
                /\ 0 < nc2 \div s
             THEN Computed_field_create_generic(w,
                      number_of_rows * (nc2 \div s),
                      <<source_field1, source_field2>>,
                      Computed_field_matrix_multiply(number_of_rows))
             ELSE NoFieldCreated(w)
    ELSE NoFieldCreated(w)

Cmiss_field_module_create_projection(w, source_field, projection_matrix_field) ==
    IF /\ source_field # 0 /\ isNumerical(Arg(w, source_field))
       /\ projection_matrix_field # 0
       /\ isNumerical(Arg(w, projection_matrix_field))
    THEN LET source_nc == Arg(w, source_field).number_of_components
             matrix_nc == Arg(w, projection_matrix_field).number_of_components
             number_of_components == (matrix_nc \div (source_nc + 1)) - 1
         IN  IF (number_of_components + 1) * (source_nc + 1) = matrix_nc
             THEN Computed_field_create_generic(w, number_of_components,
                      <<source_field, projection_matrix_field>>,
                      Computed_field_projection(number_of_components + 1,
                                                source_nc + 1))
             ELSE NoFieldCreated(w)
    ELSE NoFieldCreated(w)

Cmiss_field_module_create_transpose(w, source_number_of_rows, source_field) ==
    IF /\ 0 < source_number_of_rows
       /\ source_field # 0 /\ isNumerical(Arg(w, source_field))
       /\ 0 = Arg(w, source_field).number_of_components % source_number_of_rows
    THEN Computed_field_create_generic(w,
             Arg(w, source_field).number_of_components, <<source_field>>,
             Computed_field_transpose(source_number_of_rows))
    ELSE NoFieldCreated(w)

(* Computed_field_create_quaternion_to_matrix without the test of the     *)
(* number of components of the source field                                *)
Computed_field_create_quaternion_to_matrix_any(w, source_field) ==
    IF source_field # 0 /\ isNumerical(Arg(w, source_field))
    THEN Computed_field_create_generic(w, 16, <<source_field>>,
             Computed_field_quaternion_to_matrix)
    ELSE NoFieldCreated(w)

Computed_field_create_quaternion_to_matrix(w, source_field) ==
    IF /\ source_field # 0 /\ isNumerical(Arg(w, source_field))
       /\ Arg(w, source_field).number_of_components = 4
    THEN Computed_field_create_generic(w, 16, <<source_field>>,
             Computed_field_quaternion_to_matrix)
    ELSE NoFieldCreated(w)

Computed_field_create_matrix_to_quaternion(w, source_field) ==
    IF /\ source_field # 0 /\ isNumerical(Arg(w, source_field))
       /\ Arg(w, source_field).number_of_components = 16
    THEN Computed_field_create_generic(w, 4, <<source_field>>,
             Computed_field_matrix_to_quaternion)
    ELSE NoFieldCreated(w)

-----------------------------------------------------------------------------
(* The state as a region and as a field cache, and back *)

Region ==
    [fields |-> fields, replace_field |-> replace_field,
     cache_level |-> cache_level, changed |-> changed,
     delivered |-> delivered, locationCounter |-> locationCounter,
     valueCaches |-> valueCaches, bodyRuns |-> bodyRuns,
     field_name |-> field_name, otherCache |-> otherCache]

FieldCache ==
    [location |-> location, locationCounter |-> locationCounter,
     requestedDerivatives |-> requestedDerivatives,
     valueCaches |-> valueCaches, computing |-> computing,
     bodyRuns |-> bodyRuns]

(* a field cache for n fields as created: no location, no value cache *)
Cmiss_field_module_create_cache(n) ==
    [location |-> NoLocation, locationCounter |-> 0,
     requestedDerivatives |-> 0,
     valueCaches |-> [f \in 1..n |-> NoCache], computing |-> {},
     bodyRuns |-> [f \in 1..n |-> 0]]

(* a region with room for n fields and no field yet *)
EmptyRegion(n) ==
    [fields |-> [f \in 1..n |-> NoField], replace_field |-> 0,
     cache_level |-> 0, changed |-> NoChange,
     delivered |-> NoDelivery, locationCounter |-> 0,
     valueCaches |-> [f \in 1..n |-> NoCache],
     bodyRuns |-> [f \in 1..n |-> 0],
     field_name |-> NoName,
     otherCache |-> Cmiss_field_module_create_cache(n)]

(* a spectrum as allocated: in no manager, no change cached; components   *)
(* is the length of list_of_components.  The last four members are         *)
(* history: the last call, how often it sent MANAGED_OBJECT_CHANGE to the  *)
(* clients, the changes recorded since the outermost begin_change, and     *)
(* whether every end_change so far had its begin_change.                   *)
cmzn_spectrum_create_private ==
    [manager |-> FALSE, cache |-> 0, changed |-> FALSE,
     is_managed_flag |-> FALSE, overwrite_colour |-> TRUE, components |-> 0,
     call |-> "none", informed |-> 0, recorded |-> 0, balanced |-> TRUE]

(* createSpectrum: the spectrum is added to the manager of the module *)
cmzn_spectrummodule_create_spectrum ==
    [cmzn_spectrum_create_private EXCEPT !.manager = TRUE]

(* the last call: what it was given and what it returned *)
NoCall ==
    [op |-> "none", field |-> 0, ok |-> FALSE, values |-> <<>>,
     target |-> 0, rows |-> 0, sources |-> <<>>, result |-> "none"]

SetRegion(w) ==
    /\ fields' = w.fields
    /\ replace_field' = w.replace_field
    /\ cache_level' = w.cache_level
    /\ changed' = w.changed
    /\ delivered' = w.delivered
    /\ locationCounter' = w.locationCounter
    /\ valueCaches' = w.valueCaches
    /\ bodyRuns' = w.bodyRuns
    /\ field_name' = w.field_name
    /\ otherCache' = w.otherCache
    /\ spectrum' = spectrum

InitRegion(w) ==
    /\ fields = w.fields
    /\ replace_field = w.replace_field
    /\ cache_level = w.cache_level
    /\ changed = w.changed
    /\ delivered = NoDelivery
    /\ locationCounter = 0
    /\ valueCaches = w.valueCaches
    /\ bodyRuns = w.bodyRuns
    /\ field_name = w.field_name
    /\ otherCache = w.otherCache
    /\ spectrum = cmzn_spectrummodule_create_spectrum
    /\ location = NoLocation
    /\ computing = {}
    /\ last = NoCall

(* cmzn_fieldcache_set_node / set_mesh_location *)
SetLocation(loc) ==
    /\ locationCounter < MaxGeneration
    /\ location' = loc
    /\ locationCounter' = locationCounter + 1
    /\ bodyRuns' = [f \in DOMAIN bodyRuns |-> 0]
    /\ last' = [NoCall EXCEPT !.op = "set_location", !.ok = TRUE]
    /\ delivered' = NoDelivery
    /\ UNCHANGED <<fields, replace_field, cache_level, changed,
                   requestedDerivatives, valueCaches, computing,
                   field_name, otherCache, spectrum>>

(* cmzn_field_evaluate_real *)
(* the state after the evaluation r of field f *)
Evaluated(f, r) ==
    /\ valueCaches' = r.cache.valueCaches
    /\ computing' = r.cache.computing
    /\ bodyRuns' = r.cache.bodyRuns
    /\ last' = [NoCall EXCEPT !.op = "evaluate", !.field = f,
                               !.ok = r.valueCache.exists,
                               !.values = r.valueCache.values]

EvaluateReal(f) ==
    /\ f \in Managed(fields)
    /\ Evaluated(f, Computed_field_evaluate(fields, FieldCache, f))
    /\ delivered' = NoDelivery
    /\ UNCHANGED <<fields, replace_field, cache_level, changed, location,
                   locationCounter, requestedDerivatives, field_name,
                   otherCache, spectrum>>

-----------------------------------------------------------------------------
(* Evaluation over two fixed graphs of fields, x and p 2 x 2 finite        *)
(* element fields, A and B element locations and N a node location:        *)
(*   shared: 1 x defined at A, B and N, 2 transpose(x),                    *)
(*           3 transpose(x) * x, 4 determinant(3)                          *)
(*   apart:  1 x defined at A and B, 2 p defined at A and N,               *)
(*           3 determinant(x), 4 projection(3, p), 5 x * p                 *)

SharedRegion ==
    LET s1 == Cmiss_field_module_create_finite_element(EmptyRegion(4), 4,
                  1, {"A", "B", "N"})
        s2 == Cmiss_field_module_create_transpose(s1.w, 2, s1.field)
        s3 == Cmiss_field_module_create_matrix_multiply(s2.w, 2, s2.field,
                  s1.field)
        s4 == Cmiss_field_module_create_determinant(s3.w, s3.field)
    IN  s4.w

ApartRegion ==
    LET s1 == Cmiss_field_module_create_finite_element(EmptyRegion(5), 4,
                  1, {"A", "B"})
        s2 == Cmiss_field_module_create_finite_element(s1.w, 4, 2, {"A", "N"})
        s3 == Cmiss_field_module_create_determinant(s2.w, s1.field)
        s4 == Cmiss_field_module_create_projection(s3.w, s3.field, s2.field)
        s5 == Cmiss_field_module_create_matrix_multiply(s4.w, 2, s1.field,
                  s2.field)
    IN  s5.w

InitEval ==
    /\ \E w \in {SharedRegion, ApartRegion} : InitRegion(w)
    /\ requestedDerivatives \in 0..MaxXi

NextEval ==
    \/ \E loc \in Locations : SetLocation(loc)
    \/ \E f \in DOMAIN fields : EvaluateReal(f)

SpecEval == InitEval /\ [][NextEval]_vars

-----------------------------------------------------------------------------
(* Properties of evaluation, checked under SpecEval *)

(* a field cache at location loc in which nothing has been evaluated *)
FreshCache(loc) ==
    [location |-> loc, locationCounter |-> 0,
     requestedDerivatives |-> requestedDerivatives,
     valueCaches |-> [f \in DOMAIN fields |-> NoCache], computing |-> {},
     bodyRuns |-> [f \in DOMAIN fields |-> 0]]

(* what field f evaluates to at loc when nothing is cached *)
ValueAt(f, loc) == Computed_field_evaluate(fields, FreshCache(loc), f).valueCache

(* the sources of f at any depth *)
SourcesOf(f) == {s \in Managed(fields) : s # f /\ DependsOn(fields, f, s)}

IsShared == Cardinality(DOMAIN fields) = 4
IsApart == Cardinality(DOMAIN fields) = 5

(* C1: an evaluate that succeeds returns the values of the field at the    *)
(* current location, as computed there from nothing cached, and the        *)
(* field's evaluate body has run in the current generation: no value of    *)
(* an earlier location is returned.                                        *)
C1_NoStaleValue ==
    (last.op = "evaluate" /\ last.ok) =>
        /\ ValueAt(last.field, location).exists
        /\ last.values = ValueAt(last.field, location).values
        /\ bodyRuns[last.field] >= 1

(* C1 witness: transpose(x) evaluated at A in generation 3, after          *)
(* determinant was evaluated at A in generation 1 and the product at B in  *)
(* generation 2; the values at A and B differ.                             *)
C1_Witness ==
    /\ IsShared /\ location = "A" /\ locationCounter = 3
    /\ last.op = "evaluate" /\ last.field = 2 /\ last.ok
    /\ valueCaches[4].evaluationCounter = 1
    /\ valueCaches[4].values = ValueAt(4, "A").values
    /\ valueCaches[3].evaluationCounter = 2
    /\ valueCaches[3].values = ValueAt(3, "B").values
    /\ ValueAt(2, "A").values # ValueAt(2, "B").values

(* C2: a field whose value cache is valid has only sources whose value     *)
(* caches are valid, and an evaluate of a field one of whose sources, at   *)
(* any depth, cannot be evaluated at the current location fails: it        *)
(* returns no values and leaves the field's cache not valid.               *)
C2_FailurePropagates ==
    /\ \A f \in Managed(fields) :
          CacheValid(FieldCache, f) =>
             \A i \in DOMAIN fields[f].source_fields :
                CacheValid(FieldCache, fields[f].source_fields[i])
    /\ (/\ last.op = "evaluate"
        /\ \E s \in SourcesOf(last.field) : ~ValueAt(s, location).exists)
       => /\ ~last.ok
          /\ last.values = <<>>
          /\ ~CacheValid(FieldCache, last.field)

(* C2 witness: x * p evaluated at B, where x evaluates and p alone fails *)
C2_Witness ==
    /\ IsApart /\ location = "B"
    /\ last.op = "evaluate" /\ last.field = 5 /\ ~last.ok
    /\ CacheValid(FieldCache, 1)
    /\ ~CacheValid(FieldCache, 2)

SupportsDerivatives(core) ==
    core \in {"finite_element", "matrix_multiply", "transpose", "projection"}

-----------------------------------------------------------------------------
(* A field module in use: fields are created and redefined through the    *)
(* replace slot, inside and outside begin/end change, while a field cache  *)
(* moves between locations and evaluates them.                             *)

(* the region as a call into the field module finds it *)
Called == [Region EXCEPT !.delivered = NoDelivery]

(* a call into the field module leaving region w and returning field;     *)
(* target is the replace slot, rows the number of rows and sources the     *)
(* source fields it was given                                              *)
ModuleCall(op, w, field, rows, sources) ==
    /\ w.locationCounter <= MaxModuleGeneration
    /\ SetRegion(w)
    /\ last' = [op |-> op, field |-> field, ok |-> field # 0,
                values |-> <<>>, target |-> replace_field, rows |-> rows,
                sources |-> sources, result |-> "none"]
    /\ UNCHANGED <<location, requestedDerivatives, computing>>

ComponentCounts == {4}
RowCounts == {2}
ModuleLocations == {"A"}
FE_fields == {1, 2}

CreateFiniteElement(number_of_components, fe_field) ==
    LET r == Cmiss_field_module_create_finite_element(Called,
                 number_of_components, fe_field, ElementLocations)
    IN  ModuleCall("create", r.w, r.field, 0, <<>>)

CreateDeterminant(source_field) ==
    LET r == Cmiss_field_module_create_determinant(Called, source_field)
    IN  ModuleCall("create", r.w, r.field, 0, <<source_field>>)

CreateTranspose(source_number_of_rows, source_field) ==
    LET r == Cmiss_field_module_create_transpose(Called,
                 source_number_of_rows, source_field)
    IN  ModuleCall("create", r.w, r.field, source_number_of_rows,
            <<source_field>>)

SetReplaceField(f) ==
    /\ f # replace_field
    /\ ModuleCall("set", cmzn_fieldmodule_set_replace_field(Called, f), 0,
           0, <<>>)

GetReplaceField ==
    ModuleCall("get", Called, cmzn_fieldmodule_get_replace_field(Called), 0,
        <<>>)

BeginChange ==
    /\ cache_level < MaxLevel
    /\ ModuleCall("set", cmzn_fieldmodule_begin_change(Called), 0, 0, <<>>)

EndChange ==
    ModuleCall("set", cmzn_fieldmodule_end_change(Called), 0, 0, <<>>)

InitModule ==
    /\ InitRegion(EmptyRegion(MaxFields))
    /\ requestedDerivatives = 0

NextModule ==
    \/ \E n \in ComponentCounts, d \in FE_fields : CreateFiniteElement(n, d)
    \/ \E f \in Managed(fields) \cup {0} : CreateDeterminant(f)
    \/ \E n \in RowCounts, f \in Managed(fields) : CreateTranspose(n, f)
    \/ \E f \in Managed(fields) \cup {0} : SetReplaceField(f)
    \/ GetReplaceField
    \/ BeginChange
    \/ EndChange
    \/ \E loc \in ModuleLocations :
          locationCounter < MaxModuleGeneration /\ SetLocation(loc)
    \/ \E f \in Managed(fields) : EvaluateReal(f)

SpecModule == InitModule /\ [][NextModule]_vars

-----------------------------------------------------------------------------
(* Properties of the field module, checked under SpecModule *)

SourceSet(f) ==
    {fields[f].source_fields[i] : i \in DOMAIN fields[f].source_fields}

RECURSIVE Closure(_, _)
Closure(S, n) ==
    IF n = 0 THEN S
    ELSE Closure(S \cup UNION {SourceSet(f) : f \in S}, n - 1)

(* g is a source of f at some depth *)
Reaches(f, g) == g \in Closure(SourceSet(f), Cardinality(DOMAIN fields))

(* C4: a create call that would make the field in the replace slot a       *)
(* source of itself, directly or through other fields, returns no field    *)
(* and leaves that field off every cycle; and between calls no field is    *)
(* in the Computing state.                                                 *)
C4_CycleRejected ==
    /\ computing = {}
    /\ (/\ last.op = "create" /\ last.target # 0
        /\ \E i \in DOMAIN last.sources :
              /\ last.sources[i] # 0
              /\ \/ last.sources[i] = last.target
                 \/ Reaches(last.sources[i], last.target))
       => /\ last.field = 0
          /\ ~Reaches(last.target, last.target)

(* C4 witness: field 2 has source 1, and the redefinition of 1 with        *)
(* source 2 has just been refused                                          *)
C4_Witness ==
    /\ last.op = "create" /\ last.target = 1 /\ last.sources = <<2>>
    /\ last.field = 0
    /\ SourceSet(2) = {1}
    /\ SourceSet(1) = {}

(* C5: no field is a source of itself at any depth. *)
C5_Acyclic == \A f \in Managed(fields) : ~Reaches(f, f)

(* C5 witness: a field redefined through the replace slot to have the      *)
(* other field as its source                                               *)
C5_Witness ==
    /\ last.op = "create" /\ last.target # 0 /\ last.field = last.target
    /\ last.sources # <<>>
    /\ fields[last.target].source_fields = last.sources
    /\ \E g \in Managed(fields) : Reaches(last.target, g)

(* the create call of this step redefines the field in the replace slot *)
Redefines == last'.op = "create" /\ last'.target # 0 /\ last'.field # 0

C7_SlotClearedAfterCreate == last.op = "create" => replace_field = 0

(* C9, one step: while changes are cached the notifier receives nothing   *)
(* and no change of the field module starts a new generation; the end      *)
(* change                                                                  *)
(* that ends the caching sends the cached changes as one batch and, if a   *)
(* definition changed, starts one new generation.                          *)
C9_Step ==
    /\ cache_level' > 0 => delivered'.count = 0
    /\ (cache_level > 0 /\ cache_level' > 0 /\ last'.op # "set_location")
          => locationCounter' = locationCounter
    /\ (cache_level > 0 /\ cache_level' = 0) =>
          /\ delivered'.count = (IF changed.fields = {} THEN 0 ELSE 1)
          /\ delivered'.batch = changed.fields
          /\ locationCounter' =
                locationCounter + (IF changed.redefined = {} THEN 0 ELSE 1)
          /\ changed' = NoChange

(* C9: every step of the field module keeps notifications and the new     *)
(* generation back until the end change that ends the caching, which       *)
(* sends one batch and starts at most one generation.                      *)
C9_BatchedNotification == [][C9_Step]_vars

(* C9 witness: the end change after two fields were redefined: one batch   *)
(* of two fields, and the only new generation so far                       *)
C9_Witness ==
    /\ cache_level = 0 /\ delivered.count = 1
    /\ Cardinality(delivered.redefined) = 2
    /\ delivered.batch = delivered.redefined
    /\ location = NoLocation /\ locationCounter = 1

-----------------------------------------------------------------------------
(* Matrix products created over finite element fields of 1 to              *)
(* MaxComponents components and over each other, and evaluated             *)

MaxComponents == 4
MaxRows == 3
MaxCreated == 3

CreateMatrixMultiply(number_of_rows, source_field1, source_field2) ==
    LET r == Cmiss_field_module_create_matrix_multiply(Called,
                 number_of_rows, source_field1, source_field2)
    IN  ModuleCall("create_matrix_multiply", r.w, r.field, number_of_rows,
            <<source_field1, source_field2>>)

InitCreate ==
    /\ InitRegion(EmptyRegion(MaxCreated))
    /\ requestedDerivatives = 0

NextCreate ==
    \/ \E n \in 1..MaxComponents :
          FreeIds(Region) # {} /\ CreateFiniteElement(n, 1)
    \/ \E m \in 0..MaxRows, f \in Managed(fields) \cup {0},
          g \in Managed(fields) \cup {0} :
          FreeIds(Region) # {} /\ CreateMatrixMultiply(m, f, g)
    \/ \E loc \in ModuleLocations : locationCounter < 1 /\ SetLocation(loc)
    \/ \E f \in Managed(fields) : EvaluateReal(f)

SpecCreate == InitCreate /\ [][NextCreate]_vars

(* C10: a call creating a matrix product of two fields returns a field     *)
(* exactly if the number of rows m is positive, divides the number of      *)
(* components nc1 of the first source field, and s = nc1/m divides the     *)
(* number of components nc2 of the second; every matrix product field      *)
(* has m*s = nc1, s*n = nc2 and m*n components; and its evaluate succeeds  *)
(* with m*n values whenever both source fields evaluate.                   *)
C10_CreatedIffDivisible ==
    /\ (/\ last.op = "create_matrix_multiply"
        /\ last.sources[1] # 0 /\ last.sources[2] # 0)
       => LET m == last.rows
              nc1 == fields[last.sources[1]].number_of_components
              nc2 == fields[last.sources[2]].number_of_components
          IN  (last.field # 0) <=>
                 (m > 0 /\ nc1 % m = 0 /\ nc2 % (nc1 \div m) = 0)
    /\ \A f \in Managed(fields) :
          fields[f].core = "matrix_multiply" =>
             LET m == fields[f].number_of_rows
                 nc1 == fields[fields[f].source_fields[1]].number_of_components
                 nc2 == fields[fields[f].source_fields[2]].number_of_components
             IN  /\ m > 0
                 /\ nc1 % m = 0
                 /\ nc2 % (nc1 \div m) = 0
                 /\ fields[f].number_of_components
                       = m * (nc2 \div (nc1 \div m))
    /\ (/\ last.op = "evaluate"
        /\ fields[last.field].core = "matrix_multiply"
        /\ \A i \in 1..2 :
              CacheValid(FieldCache, fields[last.field].source_fields[i]))
       => /\ last.ok
          /\ Len(last.values) = fields[last.field].number_of_components

(* C10 witness: the 2 x 2 by 2 x 1 product of a field of 4 and a field of  *)
(* 2 components, created after a product with 3 components in the second   *)
(* source field was refused, and evaluated                                 *)
C10_Witness ==
    /\ last.op = "evaluate" /\ last.ok /\ last.field = 3
    /\ fields[3].core = "matrix_multiply"
    /\ fields[3].number_of_rows = 2
    /\ fields[fields[3].source_fields[1]].number_of_components = 4
    /\ fields[fields[3].source_fields[2]].number_of_components = 2
    /\ Len(last.values) = 2

-----------------------------------------------------------------------------
(* Determinant fields created over finite element fields of the component  *)
(* counts of SquareCounts and over each other                              *)

SquareCounts == {1, 2, 4, 6, 9, 16}
MaxSquareFields == 4

InitSquare ==
    /\ InitRegion(EmptyRegion(MaxSquareFields))
    /\ requestedDerivatives = 0

NextSquare ==
    \/ \E n \in SquareCounts :
          FreeIds(Region) # {} /\ CreateFiniteElement(n, 1)
    \/ \E f \in Managed(fields) \cup {0} :
          FreeIds(Region) # {} /\ CreateDeterminant(f)

SpecSquare == InitSquare /\ [][NextSquare]_vars

(* C11: a call creating a determinant field returns a field exactly if the *)
(* source field has 1, 4 or 9 components (a 1 x 1, 2 x 2 or 3 x 3 matrix); *)
(* for 16 components and for counts that are no square, such as 2 and 6,   *)
(* and for no source field, it returns none; and every determinant field   *)
(* has one component and a source field of 1, 4 or 9 components.           *)
C11_DeterminantUpTo3x3 ==
    /\ (last.op = "create" /\ Len(last.sources) = 1) =>
          ((last.field # 0) <=>
              /\ last.sources[1] # 0
              /\ fields[last.sources[1]].number_of_components \in {1, 4, 9})
    /\ \A f \in Managed(fields) :
          fields[f].core = "determinant" =>
             /\ fields[f].number_of_components = 1
             /\ fields[fields[f].source_fields[1]].number_of_components
                   \in {1, 4, 9}

(* C11 witness: the determinant of a field of 16 components has just been  *)
(* refused, after the determinant of a field of 9 components was created   *)
C11_Witness ==
    /\ last.op = "create" /\ last.sources = <<3>> /\ last.field = 0
    /\ fields[3].number_of_components = 16
    /\ fields[2].core = "determinant"
    /\ fields[1].number_of_components = 9
    /\ fields[2].source_fields = <<1>>

-----------------------------------------------------------------------------
(* Matrix operator fields evaluated over finite element fields whose       *)
(* values at location A are matrices with entries drawn from Entries       *)

Entries == {-1, 0, 2}
MaxSize == 3

Matrices(nc) == [1..nc -> {R(e) : e \in Entries}]

(* the region after the parameters of finite element field f have been    *)
(* set to values at loc                                                    *)
WithParameters(w, f, loc, values) ==
    [w EXCEPT !.fields[f].parameters[loc] = values]

(* setting the location and evaluating, the steps of every specification  *)
(* that starts from fields over drawn matrices                             *)
NextMatrix ==
    \/ \E loc \in ModuleLocations : locationCounter < 1 /\ SetLocation(loc)
    \/ \E f \in Managed(fields) : EvaluateReal(f)

(* 1 an n x n finite element field, 2 its determinant *)
DeterminantRegion(n, M) ==
    LET s1 == Cmiss_field_module_create_finite_element(EmptyRegion(2), n * n,
                  1, ElementLocations)
        s2 == Cmiss_field_module_create_determinant(s1.w, s1.field)
    IN  WithParameters(s2.w, 1, "A", M)

InitDeterminant ==
    /\ \E n \in 1..MaxSize : \E M \in Matrices(n * n) :
          InitRegion(DeterminantRegion(n, M))
    /\ requestedDerivatives = 0

SpecDeterminant == InitDeterminant /\ [][NextMatrix]_vars

(* the n x n matrix a, row major, without row 0 and column j *)
Minor(n, a, j) ==
    [x \in 1..((n - 1) * (n - 1)) |->
        LET row == (x - 1) \div (n - 1) + 1
            c == (x - 1) % (n - 1)
            col == IF c < j THEN c ELSE c + 1
        IN  At(a, row * n + col)]

(* the determinant of the n x n matrix a by cofactor expansion along the  *)
(* first row                                                               *)
RECURSIVE Determinant(_, _)
Determinant(n, a) ==
    IF n = 1 THEN At(a, 0)
    ELSE RSum([k \in 1..n |->
            RMul(RMul(R(IF (k - 1) % 2 = 0 THEN 1 ELSE -1), At(a, k - 1)),
                 Determinant(n - 1, Minor(n, a, k - 1)))])

(* C12: the evaluate of a determinant field succeeds wherever its source   *)
(* field evaluates, and its one value is the determinant of the source's   *)
(* values a as a row-major matrix: a[0] for 1 component,                   *)
(* a[0]*a[3] - a[1]*a[2] for 4, and the cofactor expansion along the       *)
(* first row for 9.                                                        *)
C12_DeterminantValue ==
    (last.op = "evaluate" /\ fields[last.field].core = "determinant") =>
       LET source == fields[last.field].source_fields[1]
           a == fields[source].parameters[location]
           n == Computed_field_get_square_matrix_size(fields[source])
       IN  /\ last.ok <=> ValueAt(source, location).exists
           /\ last.ok =>
                 /\ Len(last.values) = 1
                 /\ last.values[1] = Determinant(n, a)
                 /\ n = 2 => last.values[1] =
                        RSub(RMul(At(a, 0), At(a, 3)),
                             RMul(At(a, 1), At(a, 2)))

(* C12 witness: the determinant of a 3 x 3 matrix without a zero entry     *)
(* evaluated to a value that is neither zero nor the product of the        *)
(* diagonal                                                                *)
C12_Witness ==
    /\ last.op = "evaluate" /\ last.field = 2 /\ last.ok
    /\ fields[1].number_of_components = 9
    /\ \A k \in 1..9 : fields[1].parameters["A"][k] # R(0)
    /\ last.values[1] # R(0)
    /\ last.values[1] # RMul(fields[1].parameters["A"][1],
                             RMul(fields[1].parameters["A"][5],
                                  fields[1].parameters["A"][9]))

-----------------------------------------------------------------------------
(* Matrix products of an m x s and an s x n matrix *)

MaxDimension == 2
Factors == {-1, 2}

FactorMatrices(nc) == [1..nc -> {R(e) : e \in Factors}]

(* 1 an m x s and 2 an s x n finite element field, 3 their product *)
MultiplyRegion(m, s, n, A, B) ==
    LET s1 == Cmiss_field_module_create_finite_element(EmptyRegion(3), m * s,
                  1, ElementLocations)
        s2 == Cmiss_field_module_create_finite_element(s1.w, s * n, 2,
                  ElementLocations)
        s3 == Cmiss_field_module_create_matrix_multiply(s2.w, m, s1.field,
                  s2.field)
    IN  WithParameters(WithParameters(s3.w, 1, "A", A), 2, "A", B)

InitMultiply ==
    /\ \E m \in 1..MaxDimension, s \in 1..MaxDimension, n \in 1..MaxDimension :
          \E A \in FactorMatrices(m * s), B \in FactorMatrices(s * n) :
             InitRegion(MultiplyRegion(m, s, n, A, B))
    /\ requestedDerivatives \in 0..MaxXi

SpecMultiply == InitMultiply /\ [][NextMatrix]_vars

(* C13: the evaluate of the product of an m x s matrix a and an s x n      *)
(* matrix b writes m*n values, value i*n+j the sum over k of               *)
(* a[i*s+k]*b[k*n+j]; when derivatives are asked for and both sources      *)
(* have them, the derivative of value i*n+j in direction d is the sum over *)
(* k of a[i*s+k]*db[k*n+j][d] + da[i*s+k][d]*b[k*n+j].                     *)
C13_ProductValues ==
    (/\ last.op = "evaluate" /\ last.ok
     /\ fields[last.field].core = "matrix_multiply") =>
       LET f == last.field
           source1 == ValueAt(fields[f].source_fields[1], location)
           source2 == ValueAt(fields[f].source_fields[2], location)
           m == fields[f].number_of_rows
           s == Len(source1.values) \div m
           n == Len(source2.values) \div s
           number_of_xi == requestedDerivatives
           a(i, k) == At(source1.values, i * s + k)
           b(k, j) == At(source2.values, k * n + j)
           da(i, k, d) == At(source1.derivatives, number_of_xi * (i * s + k) + d)
           db(k, j, d) == At(source2.derivatives, number_of_xi * (k * n + j) + d)
       IN  /\ Len(last.values) = m * n
           /\ \A i \in 0..(m - 1), j \in 0..(n - 1) :
                 At(last.values, i * n + j) =
                    RSum([k \in 1..s |-> RMul(a(i, k - 1), b(k - 1, j))])
           /\ (/\ number_of_xi > 0
               /\ source1.derivatives_valid /\ source2.derivatives_valid) =>
                 /\ valueCaches[f].derivatives_valid
                 /\ \A i \in 0..(m - 1), j \in 0..(n - 1),
                       d \in 0..(number_of_xi - 1) :
                       At(valueCaches[f].derivatives,
                          number_of_xi * (i * n + j) + d) =
                          RSum([k \in 1..s |->
                             RAdd(RMul(a(i, k - 1), db(k - 1, j, d)),
                                  RMul(da(i, k - 1, d), b(k - 1, j)))])

(* C13 witness: the product of a 1 x 2 and a 2 x 2 matrix evaluated with   *)
(* derivatives, its two values differing                                   *)
C13_Witness ==
    /\ last.op = "evaluate" /\ last.field = 3 /\ last.ok
    /\ fields[3].number_of_rows = 1
    /\ fields[1].number_of_components = 2
    /\ fields[2].number_of_components = 4
    /\ requestedDerivatives = 1
    /\ valueCaches[3].derivatives_valid
    /\ Len(last.values) = 2
    /\ last.values[1] # last.values[2]

-----------------------------------------------------------------------------
(* The transpose of the transpose of an m x n matrix *)

(* 1 an m x n finite element field, 2 its n x m transpose, 3 the m x n     *)
(* transpose of 2                                                          *)
TransposeRegion(m, n, A) ==
    LET s1 == Cmiss_field_module_create_finite_element(EmptyRegion(3), m * n,
                  1, ElementLocations)
        s2 == Cmiss_field_module_create_transpose(s1.w, m, s1.field)
        s3 == Cmiss_field_module_create_transpose(s2.w, n, s2.field)
    IN  WithParameters(s3.w, 1, "A", A)

InitTranspose ==
    /\ \E m \in 1..MaxSize, n \in 1..MaxSize : \E A \in FactorMatrices(m * n) :
          InitRegion(TransposeRegion(m, n, A))
    /\ requestedDerivatives \in 0..MaxXi

SpecTranspose == InitTranspose /\ [][NextMatrix]_vars

(* C14: the transpose with n source rows of the transpose with m source    *)
(* rows of a field A of m*n components evaluates to exactly the values of  *)
(* A, and has exactly the derivatives of A when A has derivatives and      *)
(* they are asked for.                                                     *)
C14_TransposeTwice ==
    (/\ last.op = "evaluate" /\ last.ok
     /\ fields[last.field].core = "transpose"
     /\ fields[fields[last.field].source_fields[1]].core = "transpose") =>
       LET f == last.field
           g == fields[f].source_fields[1]
           A == fields[g].source_fields[1]
           m == fields[g].source_number_of_rows
           n == fields[f].source_number_of_rows
           source == ValueAt(A, location)
       IN  (m * n = fields[A].number_of_components) =>
              /\ last.values = source.values
              /\ valueCaches[f].derivatives_valid
                    = (requestedDerivatives > 0 /\ source.derivatives_valid)
              /\ valueCaches[f].derivatives_valid =>
                    valueCaches[f].derivatives = source.derivatives

(* C14 witness: the transpose of the transpose of a 2 x 3 matrix that is   *)
(* not its own rearrangement as a 3 x 2 matrix, evaluated with derivatives *)
C14_Witness ==
    /\ last.op = "evaluate" /\ last.field = 3 /\ last.ok
    /\ fields[2].source_number_of_rows = 2
    /\ fields[3].source_number_of_rows = 3
    /\ fields[1].number_of_components = 6
    /\ valueCaches[2].values # valueCaches[1].values
    /\ CacheValid(FieldCache, 2)
    /\ requestedDerivatives = 1
    /\ valueCaches[3].derivatives_valid
    /\ valueCaches[2].derivatives # valueCaches[1].derivatives

-----------------------------------------------------------------------------
(* The inverse of the inverse of an n x n matrix *)

(* 1 an n x n finite element field, 2 its inverse, 3 the inverse of 2 *)
InvertRegion(n, A) ==
    LET s1 == Cmiss_field_module_create_finite_element(EmptyRegion(3), n * n,
                  1, ElementLocations)
        s2 == Cmiss_field_module_create_matrix_invert(s1.w, s1.field)
        s3 == Cmiss_field_module_create_matrix_invert(s2.w, s2.field)
    IN  WithParameters(s3.w, 1, "A", A)

(* the n x n matrices inverted: entries of Entries up to 2 x 2, of         *)
(* Factors above                                                           *)
InvertMatrices(n) ==
    IF n <= 2 THEN Matrices(n * n) ELSE FactorMatrices(n * n)

InitInvert ==
    /\ \E n \in 1..MaxSize : \E A \in InvertMatrices(n) :
          InitRegion(InvertRegion(n, A))
    /\ requestedDerivatives = 0

SpecInvert == InitInvert /\ [][NextMatrix]_vars

(* the fields that are the inverse of a matrix *)
Inverses == {f \in Managed(fields) : fields[f].core = "matrix_invert"}

(* the matrix that f inverts evaluates at the location and is singular *)
SingularSource(f) ==
    LET source == fields[f].source_fields[1]
        n == Computed_field_get_square_matrix_size(fields[source])
    IN  /\ ValueAt(source, location).exists
        /\ Determinant(n, ValueAt(source, location).values) = R(0)

(* C15: the evaluate of the inverse of a matrix that is singular, or that  *)
(* cannot be evaluated, returns failure and no values, and leaves the      *)
(* field's value cache not valid; the evaluate of the inverse of a matrix  *)
(* that evaluates and is not singular succeeds.                            *)
C15_SingularFails ==
    (last.op = "evaluate" /\ last.field \in Inverses) =>
       LET f == last.field
           source == fields[f].source_fields[1]
       IN  /\ (SingularSource(f) \/ ~ValueAt(source, location).exists) =>
                 /\ ~last.ok
                 /\ last.values = <<>>
                 /\ ~CacheValid(FieldCache, f)
           /\ (ValueAt(source, location).exists /\ ~SingularSource(f)) =>
                 last.ok /\ CacheValid(FieldCache, f)

(* C15 witness: the inverse of a singular 3 x 3 matrix without a zero      *)
(* entry has just failed to evaluate, the matrix itself being evaluated    *)
C15_Witness ==
    /\ last.op = "evaluate" /\ last.field = 2 /\ ~last.ok
    /\ fields[1].number_of_components = 9
    /\ CacheValid(FieldCache, 1)
    /\ SingularSource(2)
    /\ \A k \in 1..9 : valueCaches[1].values[k] # R(0)
    /\ valueCaches[2].exists

(* C16: where the inverse of an n x n matrix A evaluates, column i of its  *)
(* values is the solution x of A x = e_i, values[j*n+i] = x[j]; and the    *)
(* inverse of the inverse of A evaluates to the values of A (the           *)
(* arithmetic of the model is exact, so within any tolerance).             *)
C16_InverseOfInverse ==
    (last.op = "evaluate" /\ last.ok /\ last.field \in Inverses) =>
       LET f == last.field
           source == fields[f].source_fields[1]
           n == Computed_field_get_square_matrix_size(fields[source])
           A == ValueAt(source, location).values
       IN  /\ \A i \in 0..(n - 1), r \in 0..(n - 1) :
                 RSum([k \in 1..n |->
                         RMul(At(A, r * n + k - 1),
                              At(last.values, (k - 1) * n + i))])
                    = (IF r = i THEN R(1) ELSE R(0))
           /\ source \in Inverses =>
                 last.values =
                    ValueAt(fields[source].source_fields[1], location).values

(* C16 witness: the inverse of the inverse of a 3 x 3 matrix evaluated,    *)
(* the inverse not being symmetric and its decomposition having exchanged  *)
(* rows                                                                    *)
C16_Witness ==
    /\ last.op = "evaluate" /\ last.field = 3 /\ last.ok
    /\ fields[1].number_of_components = 9
    /\ CacheValid(FieldCache, 2)
    /\ At(valueCaches[2].values, 1) # At(valueCaches[2].values, 3)
    /\ valueCaches[2].indx # <<0, 1, 2>>
    /\ valueCaches[3].indx # <<0, 1, 2>>
    /\ last.values = fields[1].parameters["A"]

-----------------------------------------------------------------------------
(* Eigenvalues and eigenvectors of n x n matrices that are zero above the  *)
(* main diagonal: diagonal matrices, which are symmetric, and matrices     *)
(* with entries below the diagonal, which are not                          *)

LowerMatrices(n) ==
    {M \in Matrices(n * n) :
        \A i \in 0..(n - 1), j \in 0..(n - 1) :
           i < j => At(M, i * n + j) = R(0)}

(* 1 an n x n finite element field, 2 its eigenvalues, 3 the eigenvectors  *)
(* of 2                                                                    *)
EigenRegion(n, A) ==
    LET s1 == Cmiss_field_module_create_finite_element(EmptyRegion(3), n * n,
                  1, ElementLocations)
        s2 == Cmiss_field_module_create_eigenvalues(s1.w, s1.field)
        s3 == Cmiss_field_module_create_eigenvectors(s2.w, s2.field)
    IN  WithParameters(s3.w, 1, "A", A)

InitEigen ==
    /\ \E n \in 1..MaxSize : \E A \in LowerMatrices(n) :
          InitRegion(EigenRegion(n, A))
    /\ requestedDerivatives = 0

SpecEigen == InitEigen /\ [][NextMatrix]_vars

(* the n x n matrix a is symmetric; the tolerance 1.0e-6 is smaller than   *)
(* every difference other than zero between entries of the model           *)
IsSymmetric(n, a) ==
    \A i \in 0..(n - 1), j \in 0..(n - 1) :
       At(a, i * n + j) = At(a, j * n + i)

(* the orders in which n eigenvalues can be taken *)
Orders(n) ==
    {p \in [0..(n - 1) -> 0..(n - 1)] :
        \A i \in 0..(n - 1), j \in 0..(n - 1) : p[i] = p[j] => i = j}

(* C17: the evaluate of the eigenvalues of an n x n matrix that evaluates  *)
(* succeeds, symmetric or not, with n values in descending order,          *)
(* value[i] >= value[i+1]; they are the eigenvalues found taken in some    *)
(* order, and the columns of the cached eigenvectors v are taken in the    *)
(* same order.                                                             *)
C17_EigenvaluesDescending ==
    (/\ last.op = "evaluate" /\ fields[last.field].core = "eigenvalues"
     /\ ValueAt(fields[last.field].source_fields[1], location).exists) =>
       LET f == last.field
           n == fields[f].number_of_components
           A == ValueAt(fields[f].source_fields[1], location).values
           found == Jacobi_eigenanalysis(n, A)
       IN  /\ last.ok
           /\ Len(last.values) = n
           /\ \A i \in 0..(n - 2) :
                 ~RLess(At(last.values, i), At(last.values, i + 1))
           /\ \E p \in Orders(n) :
                 \A i \in 0..(n - 1) :
                    /\ At(last.values, i) = At(found.d, p[i])
                    /\ \A row \in 0..(n - 1) :
                          At(valueCaches[f].v, row * n + i)
                             = At(found.v, row * n + p[i])

(* C17 witness: the eigenvalues of a 3 x 3 matrix that is not symmetric,   *)
(* with the diagonal -1, 2, 0, evaluated to 2, 0, -1                       *)
C17_Witness ==
    /\ last.op = "evaluate" /\ last.field = 2 /\ last.ok
    /\ fields[2].number_of_components = 3
    /\ ~IsSymmetric(3, fields[1].parameters["A"])
    /\ At(fields[1].parameters["A"], 0) = R(-1)
    /\ At(fields[1].parameters["A"], 4) = R(2)
    /\ At(fields[1].parameters["A"], 8) = R(0)
    /\ last.values = <<R(2), R(0), R(-1)>>

(* C18: the evaluate of an eigenvectors field succeeds exactly where its   *)
(* eigenvalues source evaluates; it leaves that source valid at the        *)
(* current location with its eigenanalysis run once in the generation,     *)
(* and writes output[i*n+j] = v[j*n+i] from the source's cached v, so      *)
(* that for a symmetric matrix A row i of the output is an eigenvector of  *)
(* A for the source's eigenvalue i.                                        *)
C18_EigenvectorsFromCache ==
    (last.op = "evaluate" /\ fields[last.field].core = "eigenvectors") =>
       LET f == last.field
           source == fields[f].source_fields[1]
           n == fields[source].number_of_components
           A == ValueAt(fields[source].source_fields[1], location).values
           v == valueCaches[source].v
       IN  /\ last.ok <=> ValueAt(source, location).exists
           /\ last.ok =>
                 /\ CacheValid(FieldCache, source)
                 /\ bodyRuns[source] = 1
                 /\ Len(last.values) = n * n
                 /\ \A i \in 0..(n - 1), j \in 0..(n - 1) :
                       At(last.values, i * n + j) = At(v, j * n + i)
                 /\ IsSymmetric(n, A) =>
                       \A i \in 0..(n - 1), r \in 0..(n - 1) :
                          RSum([k \in 1..n |->
                                  RMul(At(A, r * n + k - 1),
                                       At(last.values, i * n + k - 1))])
                             = RMul(At(valueCaches[source].values, i),
                                    At(last.values, i * n + r))

(* C18 witness: the eigenvectors of a diagonal 3 x 3 matrix evaluated,     *)
(* the eigenanalysis of its eigenvalues source having run once; the        *)
(* cached v is not symmetric, so rows and columns differ                   *)
C18_Witness ==
    /\ last.op = "evaluate" /\ last.field = 3 /\ last.ok
    /\ fields[2].number_of_components = 3
    /\ IsSymmetric(3, fields[1].parameters["A"])
    /\ ~IsSymmetric(3, valueCaches[2].v)
    /\ bodyRuns[2] = 1 /\ bodyRuns[3] = 1
    /\ last.values # valueCaches[2].v

-----------------------------------------------------------------------------
(* Projection fields of several shapes, assigned to and evaluated at the   *)
(* node location N and the element locations A and B, as constructed and   *)
(* with their core copied.  1 is the coordinate field, defined everywhere, *)
(* 2 the projection matrix, defined at A and N, 3 the projection.          *)

MaxAssignGeneration == 2

(* the 4 x 4 projection matrices: scaling a, b of x and y, translation t   *)
(* of x, perspective p along x and homogeneous scale h                     *)
ProjectionMatrix(a, b, t, p, h) ==
    <<R(a), R(0), R(0), R(t),
      R(0), R(b), R(0), R(0),
      R(0), R(0), R(1), R(0),
      R(p), R(0), R(0), R(h)>>

ProjectionMatrices ==
    {ProjectionMatrix(a, b, t, p, h) :
        a \in {0, 2}, b \in {0, 1}, t \in {0, -1}, p \in {0, 2}, h \in {0, 1}}

(* the shapes other than 3 and 4 x 4: components of the coordinate field   *)
(* and of the projection                                                   *)
OtherShapes == {<<4, 3>>, <<5, 3>>, <<3, 2>>, <<3, 4>>, <<1, 1>>}

(* a matrix of nc values for another shape, its first 16 values those of   *)
(* the 4 x 4 identity                                                      *)
OtherMatrix(nc) == [k \in 1..nc |-> IF (k - 1) % 5 = 0 THEN R(1) ELSE R(0)]

AssignRegion(source_nc, nc, M) ==
    LET s1 == Cmiss_field_module_create_finite_element(EmptyRegion(3),
                  source_nc, 1, Locations)
        s2 == Cmiss_field_module_create_finite_element(s1.w,
                  (nc + 1) * (source_nc + 1), 2, {"A", "N"})
        s3 == Cmiss_field_module_create_projection(s2.w, s1.field, s2.field)
    IN  WithParameters(WithParameters(s3.w, 2, "A", M), 2, "N", M)

(* the values assigned: 0 or 2 for x, then -1, -2 and so on *)
AssignValues(nc) ==
    {[k \in 1..nc |-> IF k = 1 THEN R(x) ELSE R(1 - k)] : x \in {0, 2}}

(* cmzn_field_assign_real *)
(* the state after the assignment r of values to field f *)
Assigned(f, values, r) ==
    /\ r.cache.locationCounter <= MaxAssignGeneration
    /\ fields' = r.fields
    /\ valueCaches' = r.cache.valueCaches
    /\ locationCounter' = r.cache.locationCounter
    /\ computing' = r.cache.computing
    /\ bodyRuns' = r.cache.bodyRuns
    /\ otherCache' = IF r.result # FIELD_ASSIGNMENT_RESULT_FAIL
                      THEN FieldChanged(otherCache) ELSE otherCache
    /\ last' = [NoCall EXCEPT
                  !.op = "assign", !.field = f, !.values = values,
                  !.ok = r.result # FIELD_ASSIGNMENT_RESULT_FAIL,
                  !.result = r.result]

AssignReal(f, values) ==
    /\ f \in Managed(fields)
    /\ Assigned(f, values,
           cmzn_field_assign_real(fields, FieldCache, f, values))
    /\ delivered' = NoDelivery
    /\ UNCHANGED <<replace_field, cache_level, changed, location,
                   requestedDerivatives, field_name, spectrum>>

(* the definition of field f copied onto itself, its core by core->copy() *)
CopyDefinition(f) ==
    /\ f \in Managed(fields)
    /\ fields[f].core = "projection"
    /\ LET w == ManagedObjectChange(
                    [Called EXCEPT !.fields[f] = Computed_field_core_copy(@),
                                   !.valueCaches[f] = NoCache],
                    f, TRUE)
       IN  /\ w.locationCounter <= MaxAssignGeneration
           /\ SetRegion(w)
           /\ last' = [NoCall EXCEPT !.op = "copy", !.field = f, !.ok = TRUE]
    /\ UNCHANGED <<location, requestedDerivatives, computing>>

InitAssign ==
    /\ \/ \E M \in ProjectionMatrices : InitRegion(AssignRegion(3, 3, M))
       \/ \E shape \in OtherShapes :
             InitRegion(AssignRegion(shape[1], shape[2],
                 OtherMatrix((shape[1] + 1) * (shape[2] + 1))))
    /\ requestedDerivatives = 0

NextAssign ==
    \/ \E loc \in Locations : locationCounter < 1 /\ SetLocation(loc)
    \/ \E f \in Managed(fields) : EvaluateReal(f)
    \/ \E f \in {3} :
          \E values \in AssignValues(fields[f].number_of_components) :
             AssignReal(f, values)
    \/ \E f \in Managed(fields) : CopyDefinition(f)

SpecAssign == InitAssign /\ [][NextAssign]_vars

(* the projections and the shape that supports assignment: 3 components,   *)
(* a coordinate field of 3 and a matrix of 16                              *)
Projections == {f \in Managed(fields) : fields[f].core = "projection"}

Is3And4x4(f) ==
    /\ fields[f].number_of_components = 3
    /\ fields[fields[f].source_fields[1]].number_of_components = 3
    /\ fields[fields[f].source_fields[2]].number_of_components = 16

(* the cores a field's core can be: as it is and as copied *)
Copies(fd) == {fd, Computed_field_core_copy(fd)}

(* C19: an assign to a projection field that does not fail was made to a   *)
(* projection of 3 components of a coordinate field of 3 components by a   *)
(* 4 x 4 matrix; and for a projection of any other shape, with its core    *)
(* as it is or copied, every assign returns                                *)
(* FIELD_ASSIGNMENT_RESULT_FAIL.                                           *)
C19_AssignOnly3And4x4 ==
    /\ (/\ last.op = "assign" /\ last.field \in Projections
        /\ last.result # FIELD_ASSIGNMENT_RESULT_FAIL) => Is3And4x4(last.field)
    /\ \A f \in Projections :
          ~Is3And4x4(f) =>
             \A fd \in Copies(fields[f]) :
                \A values \in AssignValues(fields[f].number_of_components) :
                   cmzn_field_assign_real([fields EXCEPT ![f] = fd],
                       FieldCache, f, values).result
                      = FIELD_ASSIGNMENT_RESULT_FAIL

(* C19 witness: at the node location, an assign to the projection of a     *)
(* coordinate field of 4 components by a 4 x 5 matrix, its core copied     *)
(* once, has just failed, the matrix being evaluated                       *)
C19_Witness ==
    /\ last.op = "assign" /\ last.field = 3
    /\ last.result = FIELD_ASSIGNMENT_RESULT_FAIL
    /\ location = "N"
    /\ fields[1].number_of_components = 4
    /\ fields[2].number_of_components = 20
    /\ fields[3].number_of_components = 3
    /\ fields[3].matrix_rows = 4 /\ fields[3].matrix_columns = 5
    /\ ValueAt(2, "N").exists

(* the 4 x 4 matrix M with column k replaced by the vector b *)
Replaced(M, k, b) ==
    [x \in 1..16 |-> IF (x - 1) % 4 = k THEN At(b, (x - 1) \div 4) ELSE M[x]]

(* an assign to field f at the current location sets its values *)
Assignable(f) ==
    /\ fields[f].core = "finite_element"
    /\ location \in NodeLocations /\ location \in fields[f].defined_at

(* C20: an assign of the values v to a projection of 3 components of a     *)
(* coordinate field of 3 components by a 4 x 4 matrix M fails when M does  *)
(* not evaluate, when M is singular and when the solution of               *)
(* M x = (v, 1) has x[3] = 0; otherwise it returns the result of the       *)
(* assign to the coordinate field, which then has the values               *)
(* x[0..2] / x[3], the coordinates that the projection takes to v.         *)
C20_AssignSolves ==
    (last.op = "assign" /\ last.field \in Projections
        /\ Is3And4x4(last.field)) =>
       LET f == last.field
           coordinateField == fields[f].source_fields[1]
           matrix == ValueAt(fields[f].source_fields[2], location)
           M == matrix.values
           b == last.values \o <<R(1)>>
           x(k) == RDiv(Determinant(4, Replaced(M, k, b)), Determinant(4, M))
           unsolved == \/ ~matrix.exists
                       \/ Determinant(4, M) = R(0)
                       \/ x(3) = R(0)
       IN  /\ unsolved => last.result = FIELD_ASSIGNMENT_RESULT_FAIL
           /\ ~unsolved =>
                 /\ last.result =
                       (IF Assignable(coordinateField)
                        THEN FIELD_ASSIGNMENT_RESULT_ALL_VALUES_SET
                        ELSE FIELD_ASSIGNMENT_RESULT_FAIL)
                 /\ Assignable(coordinateField) =>
                       /\ fields[coordinateField].parameters[location] =
                             <<RDiv(x(0), x(3)), RDiv(x(1), x(3)),
                               RDiv(x(2), x(3))>>
                       /\ ValueAt(f, location).values = last.values

(* C20 witness: at the node location an assign through a matrix with       *)
(* perspective and translation has set coordinates other than the values   *)
(* assigned                                                                *)
C20_Witness ==
    /\ last.op = "assign" /\ last.field = 3 /\ Is3And4x4(3)
    /\ last.result = FIELD_ASSIGNMENT_RESULT_ALL_VALUES_SET
    /\ location = "N"
    /\ At(fields[2].parameters["N"], 12) # R(0)
    /\ At(fields[2].parameters["N"], 3) # R(0)
    /\ fields[1].parameters["N"] # last.values
    /\ ValueAt(3, "N").values = last.values

-----------------------------------------------------------------------------
(* The factories of the matrix operators called with fields of the         *)
(* component counts of FactoryCounts, with each other's fields and with no *)
(* field, with and without a field in the replace slot                     *)

MaxFactoryFields == 3
FactoryCounts == {3, 4, 16}
FactoryRows == {0, 2, 3}

CreateEigenvalues(source_field) ==
    LET r == Cmiss_field_module_create_eigenvalues(Called, source_field)
    IN  ModuleCall("create_eigenvalues", r.w, r.field, 0, <<source_field>>)

CreateEigenvectors(eigenvalues_field) ==
    LET r == Cmiss_field_module_create_eigenvectors(Called, eigenvalues_field)
    IN  ModuleCall("create_eigenvectors", r.w, r.field, 0,
            <<eigenvalues_field>>)

CreateMatrixInvert(source_field) ==
    LET r == Cmiss_field_module_create_matrix_invert(Called, source_field)
    IN  ModuleCall("create_matrix_invert", r.w, r.field, 0, <<source_field>>)

CreateQuaternionToMatrix(source_field) ==
    LET r == Computed_field_create_quaternion_to_matrix(Called, source_field)
    IN  ModuleCall("create_quaternion_to_matrix", r.w, r.field, 0,
            <<source_field>>)

CreateMatrixToQuaternion(source_field) ==
    LET r == Computed_field_create_matrix_to_quaternion(Called, source_field)
    IN  ModuleCall("create_matrix_to_quaternion", r.w, r.field, 0,
            <<source_field>>)

CreateTransposeOf(source_number_of_rows, source_field) ==
    LET r == Cmiss_field_module_create_transpose(Called,
                 source_number_of_rows, source_field)
    IN  ModuleCall("create_transpose", r.w, r.field, source_number_of_rows,
            <<source_field>>)

InitFactory ==
    /\ InitRegion(EmptyRegion(MaxFactoryFields))
    /\ requestedDerivatives = 0

NextFactory ==
    \/ \E n \in FactoryCounts : CreateFiniteElement(n, 1)
    \/ \E f \in Managed(fields) \cup {0} : CreateEigenvalues(f)
    \/ \E f \in Managed(fields) \cup {0} : CreateEigenvectors(f)
    \/ \E f \in Managed(fields) \cup {0} : CreateMatrixInvert(f)
    \/ \E f \in Managed(fields) \cup {0} : CreateQuaternionToMatrix(f)
    \/ \E f \in Managed(fields) \cup {0} : CreateMatrixToQuaternion(f)
    \/ \E n \in FactoryRows, f \in Managed(fields) \cup {0} :
          CreateTransposeOf(n, f)
    \/ \E f \in Managed(fields) \cup {0} : SetReplaceField(f)

SpecFactory == InitFactory /\ [][NextFactory]_vars

(* what the factory of the call asks of its source field fd and of the     *)
(* number of rows it was given                                             *)
Constructible(op, fd, rows) ==
    CASE op = "create_quaternion_to_matrix" -> fd.number_of_components = 4
      [] op = "create_matrix_to_quaternion" -> fd.number_of_components = 16
      [] op \in {"create_eigenvalues", "create_matrix_invert"} ->
            \E n \in 1..4 : fd.number_of_components = n * n
      [] op = "create_eigenvectors" -> fd.core = "eigenvalues"
      [] op = "create_transpose" ->
            rows > 0 /\ fd.number_of_components % rows = 0
      [] OTHER -> FALSE

(* the number of components of the field the factory of the call returns *)
ConstructedCount(op, fd) ==
    CASE op = "create_quaternion_to_matrix" -> 16
      [] op = "create_matrix_to_quaternion" -> 4
      [] op = "create_eigenvalues" -> SquareRootFrom(1, fd.number_of_components)
      [] op = "create_eigenvectors" ->
            fd.number_of_components * fd.number_of_components
      [] OTHER -> fd.number_of_components

FactoryOps ==
    {"create_quaternion_to_matrix", "create_matrix_to_quaternion",
     "create_eigenvalues", "create_matrix_invert", "create_eigenvectors",
     "create_transpose"}

C21_Step ==
    last'.op \in FactoryOps =>
       LET source_field == last'.sources[1]
           fd == Arg(Region, source_field)
       IN  /\ last'.field # 0 =>
                 /\ source_field # 0
                 /\ Constructible(last'.op, fd, last'.rows)
                 /\ fields'[last'.field].number_of_components
                       = ConstructedCount(last'.op, fd)
           /\ last'.field = 0 => fields' = fields
           /\ (/\ source_field # 0
               /\ Constructible(last'.op, fd, last'.rows)
               /\ replace_field = 0 /\ FreeIds(Region) # {})
              => last'.field # 0

(* C21: a factory call returns a field only for a source field it can be   *)
(* built on: quaternion_to_matrix a field of 16 components only for a      *)
(* source of 4, matrix_to_quaternion a field of 4 only for a source of 16, *)
(* eigenvalues and matrix_invert only for a square source, eigenvectors    *)
(* only for an eigenvalues field, transpose only for a number of rows that *)
(* divides the source's components; and it does return one for such a      *)
(* source when a new field is asked for and there is room.  A call that    *)
(* returns no field leaves the fields of the module as they were.          *)
C21_ConstructionErrors == [][C21_Step]_vars

(* C21 witness: matrix_to_quaternion was refused for a source of 4         *)
(* components, after quaternion_to_matrix made a field of 16 components    *)
(* from that source                                                        *)
C21_Witness ==
    /\ last.op = "create_matrix_to_quaternion" /\ last.field = 0
    /\ last.sources[1] # 0
    /\ fields[last.sources[1]].number_of_components = 4
    /\ \E f \in Managed(fields) :
          /\ fields[f].core = "quaternion_to_matrix"
          /\ fields[f].number_of_components = 16
          /\ fields[f].source_fields = last.sources

-----------------------------------------------------------------------------
(* One field of every matrix operator kind and shape, each made by its     *)
(* factory over finite element fields, and evaluated                       *)

MaxShape == 3

(* the n x n matrix with 1 to n on the diagonal *)
DiagonalMatrix(n) ==
    [x \in 1..(n * n) |->
        IF (x - 1) \div n = (x - 1) % n THEN R((x - 1) \div n + 1) ELSE R(0)]

(* the quaternions converted: no rotation, and half a turn about x and z *)
Quaternions ==
    {<<R(1), R(0), R(0), R(0)>>, <<R(0), R(1), R(0), R(0)>>,
     <<R(0), R(0), R(0), R(1)>>}

(* 1 a quaternion, 2 its matrix, 3 the quaternion of 2 *)
QuaternionRegion(q) ==
    LET s1 == Cmiss_field_module_create_finite_element(EmptyRegion(3), 4, 1,
                  ElementLocations)
        s2 == Computed_field_create_quaternion_to_matrix(s1.w, s1.field)
        s3 == Computed_field_create_matrix_to_quaternion(s2.w, s2.field)
    IN  WithParameters(s3.w, 1, "A", q)

(* components of the source field and rows of the projection matrix *)
ProjectionShapes == {<<1, 2>>, <<2, 2>>, <<2, 3>>, <<3, 2>>, <<3, 4>>}

InitShape ==
    /\ \/ \E n \in 1..MaxShape :
             \/ InitRegion(DeterminantRegion(n, DiagonalMatrix(n)))
             \/ InitRegion(EigenRegion(n, DiagonalMatrix(n)))
             \/ InitRegion(InvertRegion(n, DiagonalMatrix(n)))
       \/ \E m \in 1..MaxShape, n \in 1..MaxShape :
             InitRegion(TransposeRegion(m, n, OtherMatrix(m * n)))
       \/ \E m \in 1..2, k \in 1..2, n \in 1..2 :
             InitRegion(MultiplyRegion(m, k, n, OtherMatrix(m * k),
                 OtherMatrix(k * n)))
       \/ \E shape \in ProjectionShapes :
             InitRegion(AssignRegion(shape[1], shape[2] - 1,
                 OtherMatrix(shape[2] * (shape[1] + 1))))
       \/ \E q \in Quaternions : InitRegion(QuaternionRegion(q))
    /\ requestedDerivatives \in 0..MaxXi

SpecShape == InitShape /\ [][NextMatrix]_vars

(* the number of components of field f as a function of its kind and of    *)
(* the numbers of components of its source fields                          *)
ComponentCount(f) ==
    LET nc1 == fields[fields[f].source_fields[1]].number_of_components
        nc2 == fields[fields[f].source_fields[2]].number_of_components
        m == fields[f].number_of_rows
    IN  CASE fields[f].core = "determinant" -> 1
          [] fields[f].core = "eigenvalues" -> SquareRootFrom(1, nc1)
          [] fields[f].core = "eigenvectors" -> nc1 * nc1
          [] fields[f].core \in {"matrix_invert", "transpose"} -> nc1
          [] fields[f].core = "matrix_multiply" ->
                m * (nc2 \div (nc1 \div m))
          [] fields[f].core = "projection" -> nc2 \div (nc1 + 1) - 1
          [] fields[f].core = "quaternion_to_matrix" -> 16
          [] fields[f].core = "matrix_to_quaternion" -> 4
          [] OTHER -> fields[f].number_of_components

(* C22: every field made by a factory of the matrix operators has the      *)
(* number of components its kind gives for the numbers of components of    *)
(* its source fields: determinant 1, eigenvalues n for n*n, eigenvectors    *)
(* n*n for n, matrix_invert and transpose the source's, matrix_multiply     *)
(* m*(nc2/(nc1/m)), projection nc_matrix/(nc_source+1) - 1,                *)
(* quaternion_to_matrix 16, matrix_to_quaternion 4; its value cache holds   *)
(* that many values, and an evaluate that succeeds returns that many.       *)
C22_ComponentCounts ==
    /\ \A f \in Managed(fields) :
          /\ fields[f].number_of_components = ComponentCount(f)
          /\ valueCaches[f].exists =>
                Len(valueCaches[f].values) = ComponentCount(f)
    /\ (last.op = "evaluate" /\ last.ok) =>
          Len(last.values) = ComponentCount(last.field)

(* C22 witness: the quaternion of the matrix of a quaternion evaluated to   *)
(* 4 values from the 16 values of the matrix                               *)
C22_Witness ==
    /\ last.op = "evaluate" /\ last.ok
    /\ fields[last.field].core = "matrix_to_quaternion"
    /\ Len(last.values) = 4
    /\ CacheValid(FieldCache, fields[last.field].source_fields[1])
    /\ Len(valueCaches[fields[last.field].source_fields[1]].values) = 16

-----------------------------------------------------------------------------
(* Copies of a core *)

(* the kind and the parameters of a core *)
CoreParameters(fd) ==
    <<fd.core, fd.number_of_rows, fd.source_number_of_rows, fd.matrix_rows,
      fd.matrix_columns>>

(* C23: the core that copy() gives a field is of the same kind and has     *)
(* the same parameters as the core copied: a copied projection keeps        *)
(* matrix_rows and matrix_columns, also when the two differ.                *)
C23_CopyKeepsParameters ==
    [][last'.op = "copy" =>
          CoreParameters(fields'[last'.field])
              = CoreParameters(fields[last'.field])]_vars

-----------------------------------------------------------------------------
(* Failed assignments to a projection *)

(* the coordinate field of projection f *)
CoordinateField(f) == fields[f].source_fields[1]

-----------------------------------------------------------------------------
(* compare and get_command_string of the cores.  fd is the definition of   *)
(* the field the core belongs to, other that of the field compared with.   *)

(* dynamic_cast of the other core to the kind of this one *)
Computed_field_core_dynamic_cast(fd, other) == other.core = fd.core

(* Computed_field_matrix_multiply::compare without the test of             *)
(* number_of_rows                                                          *)
Computed_field_matrix_multiply_compare_kind(fd, other) ==
    Computed_field_core_dynamic_cast(fd, other)

Computed_field_matrix_multiply_compare(fd, other) ==
    IF Computed_field_core_dynamic_cast(fd, other)
    THEN fd.number_of_rows = other.number_of_rows
    ELSE FALSE

Computed_field_transpose_compare(fd, other) ==
    IF Computed_field_core_dynamic_cast(fd, other)
    THEN fd.source_number_of_rows = other.source_number_of_rows
    ELSE FALSE

(* core->compare(other_core) *)
Computed_field_core_compare(fd, other) ==
    CASE fd.core = "matrix_multiply" ->
            Computed_field_matrix_multiply_compare(fd, other)
      [] fd.core = "transpose" -> Computed_field_transpose_compare(fd, other)
      [] OTHER -> Computed_field_core_dynamic_cast(fd, other)

(* GET_NAME and make_valid_token: the name of a field as a token; the      *)
(* names of the fields here are tokens as they are                         *)
make_valid_token(name) == name

(* sprintf(temp_string, " keyword %d", n) *)
sprintf_d(keyword, n) == " " \o keyword \o " " \o ToString(n)

(* get_command_string of a kind with one source field *)
Computed_field_get_command_string_field(fs, f, type_string, keyword) ==
    type_string \o keyword
        \o make_valid_token(fs[fs[f].source_fields[1]].name)

Computed_field_matrix_multiply_get_command_string(fs, f) ==
    "matrix_multiply" \o sprintf_d("number_of_rows", fs[f].number_of_rows)
        \o " fields "
        \o make_valid_token(fs[fs[f].source_fields[1]].name) \o " "
        \o make_valid_token(fs[fs[f].source_fields[2]].name)

Computed_field_projection_get_command_string(fs, f) ==
    "projection" \o " field "
        \o make_valid_token(fs[fs[f].source_fields[1]].name)
        \o " projection_matrix "
        \o make_valid_token(fs[fs[f].source_fields[2]].name)

(* Computed_field_transpose::get_command_string without                    *)
(* source_number_of_rows                                                   *)
Computed_field_transpose_get_command_string_short(fs, f) ==
    Computed_field_get_command_string_field(fs, f, "transpose", " field ")

Computed_field_transpose_get_command_string(fs, f) ==
    "transpose"
        \o sprintf_d("source_number_of_rows", fs[f].source_number_of_rows)
        \o " field " \o make_valid_token(fs[fs[f].source_fields[1]].name)

(* core->get_command_string() *)
Computed_field_core_get_command_string(fs, f) ==
    CASE fs[f].core = "matrix_multiply" ->
            Computed_field_matrix_multiply_get_command_string(fs, f)
      [] fs[f].core = "projection" ->
            Computed_field_projection_get_command_string(fs, f)
      [] fs[f].core = "transpose" ->
            Computed_field_transpose_get_command_string(fs, f)
      [] fs[f].core = "eigenvectors" ->
            Computed_field_get_command_string_field(fs, f, fs[f].core,
                " eigenvalues ")
      [] OTHER ->
            Computed_field_get_command_string_field(fs, f, fs[f].core,
                " field ")

(* the fields of the matrix operator kinds *)
Operators(fs) == {f \in Managed(fs) : fs[f].core # "finite_element"}

(* 1, 2, 3 finite element fields of 4, 16 and 20 components and over them  *)
(* fields of every matrix operator kind, those with a parameter with       *)
(* several values of it                                                    *)
CoreRegion ==
    LET s1 == Cmiss_field_module_create_finite_element(EmptyRegion(18), 4, 1,
                  ElementLocations)
        s2 == Cmiss_field_module_create_finite_element(s1.w, 16, 2,
                  ElementLocations)
        s3 == Cmiss_field_module_create_finite_element(s2.w, 20, 3,
                  ElementLocations)
        s4 == Cmiss_field_module_create_determinant(s3.w, 1)
        s5 == Cmiss_field_module_create_eigenvalues(s4.w, 1)
        s6 == Cmiss_field_module_create_eigenvectors(s5.w, 5)
        s7 == Cmiss_field_module_create_matrix_invert(s6.w, 1)
        s8 == Cmiss_field_module_create_matrix_multiply(s7.w, 2, 1, 1)
        s9 == Cmiss_field_module_create_matrix_multiply(s8.w, 4, 1, 1)
        s10 == Cmiss_field_module_create_matrix_multiply(s9.w, 1, 1, 2)
        s11 == Cmiss_field_module_create_transpose(s10.w, 2, 1)
        s12 == Cmiss_field_module_create_transpose(s11.w, 4, 1)
        s13 == Cmiss_field_module_create_transpose(s12.w, 2, 2)
        s14 == Cmiss_field_module_create_projection(s13.w, 1, 3)
        s15 == Cmiss_field_module_create_projection(s14.w, 4, 1)
        s16 == Cmiss_field_module_create_projection(s15.w, 4, 2)
        s17 == Computed_field_create_quaternion_to_matrix(s16.w, 1)
        s18 == Computed_field_create_matrix_to_quaternion(s17.w, 2)
    IN  s18.w

(* core->compare of field f with the core of field g *)
Compare(f, g) ==
    /\ f \in Operators(fields) /\ g \in Operators(fields)
    /\ last' = [NoCall EXCEPT
                  !.op = "compare", !.field = f, !.target = g,
                  !.ok = Computed_field_core_compare(fields[f], fields[g])]
    /\ UNCHANGED <<fields, replace_field, cache_level, changed, delivered,
                   location, locationCounter, requestedDerivatives,
                   valueCaches, computing, bodyRuns, field_name, otherCache,
                   spectrum>>

(* core->get_command_string() of field f *)
GetCommandString(f) ==
    /\ f \in Operators(fields)
    /\ last' = [NoCall EXCEPT
                  !.op = "get_command_string", !.field = f, !.ok = TRUE,
                  !.result = Computed_field_core_get_command_string(fields, f)]
    /\ UNCHANGED <<fields, replace_field, cache_level, changed, delivered,
                   location, locationCounter, requestedDerivatives,
                   valueCaches, computing, bodyRuns, field_name, otherCache,
                   spectrum>>

InitCore ==
    /\ InitRegion(CoreRegion)
    /\ requestedDerivatives = 0

NextCore ==
    \/ \E f \in Managed(fields), g \in Managed(fields) : Compare(f, g)
    \/ \E f \in Managed(fields) : GetCommandString(f)
    \/ \E f \in Managed(fields) : CopyDefinition(f)

SpecCore == InitCore /\ [][NextCore]_vars

(* the same kind and the same parameter of the kind: number_of_rows of a   *)
(* matrix_multiply, source_number_of_rows of a transpose                   *)
SameKindAndParameter(fd, other) ==
    /\ fd.core = other.core
    /\ fd.core = "matrix_multiply" => fd.number_of_rows = other.number_of_rows
    /\ fd.core = "transpose" =>
          fd.source_number_of_rows = other.source_number_of_rows

(* C24: compare is true exactly when the other core is of the same kind    *)
(* and has the same operator parameter (number_of_rows of a                *)
(* matrix_multiply, source_number_of_rows of a transpose), false for       *)
(* another kind or another parameter; it is reflexive and symmetric over   *)
(* the matrix operator kinds, and two fields of equal kind, parameters and *)
(* source fields in order compare true.                                    *)
C24_CompareStructural ==
    /\ last.op = "compare" =>
          last.ok = SameKindAndParameter(fields[last.field],
                        fields[last.target])
    /\ \A f \in Operators(fields) :
          /\ Computed_field_core_compare(fields[f], fields[f])
          /\ \A g \in Operators(fields) :
                /\ Computed_field_core_compare(fields[f], fields[g])
                      = Computed_field_core_compare(fields[g], fields[f])
                /\ (/\ CoreParameters(fields[f]) = CoreParameters(fields[g])
                    /\ fields[f].source_fields = fields[g].source_fields) =>
                      Computed_field_core_compare(fields[f], fields[g])

(* C24 witness: two matrix_multiply fields of the same source field, one   *)
(* of 2 rows and one of 4, were compared and differ                        *)
C24_Witness ==
    /\ last.op = "compare" /\ ~last.ok
    /\ fields[last.field].core = "matrix_multiply"
    /\ fields[last.target].core = "matrix_multiply"
    /\ fields[last.field].number_of_rows = 2
    /\ fields[last.target].number_of_rows = 4
    /\ fields[last.field].source_fields[1]
          = fields[last.target].source_fields[1]

(* the text the spec gives for the kind of field f: the keyword of the     *)
(* kind, its named parameter, the names of its source fields in order      *)
CommandForm(f) ==
    LET a == fields[fields[f].source_fields[1]].name
        b == fields[fields[f].source_fields[2]].name
    IN  CASE fields[f].core = "matrix_multiply" ->
                "matrix_multiply number_of_rows "
                    \o ToString(fields[f].number_of_rows)
                    \o " fields " \o a \o " " \o b
          [] fields[f].core = "transpose" ->
                "transpose source_number_of_rows "
                    \o ToString(fields[f].source_number_of_rows)
                    \o " field " \o a
          [] fields[f].core = "eigenvectors" -> "eigenvectors eigenvalues " \o a
          [] fields[f].core = "projection" ->
                "projection field " \o a \o " projection_matrix " \o b
          [] OTHER -> fields[f].core \o " field " \o a

(* C25: get_command_string of a field is the keyword of its kind, its      *)
(* named parameter and the names of its source fields in order, the same   *)
(* text whenever the field is the same; and two fields with the same text  *)
(* compare true, so the text has every parameter compare distinguishes.    *)
C25_CommandString ==
    /\ last.op = "get_command_string" => last.result = CommandForm(last.field)
    /\ \A f \in Operators(fields) : \A g \in Operators(fields) :
          Computed_field_core_get_command_string(fields, f)
              = Computed_field_core_get_command_string(fields, g) =>
             Computed_field_core_compare(fields[f], fields[g])

(* C25 witness: the text of a transpose of 4 rows was returned, and        *)
(* another transpose of the same source field has other rows               *)
C25_Witness ==
    /\ last.op = "get_command_string"
    /\ last.result = "transpose source_number_of_rows 4 field temp1"
    /\ \E g \in Operators(fields) :
          /\ fields[g].core = "transpose"
          /\ fields[g].source_fields = fields[last.field].source_fields
          /\ fields[g].source_number_of_rows = 2

-----------------------------------------------------------------------------
(* The change cache of a spectrum *)

MaxSpectrumLevel == 3
MaxSpectrumComponents == 2

(* MANAGED_OBJECT_CHANGE: the clients of the manager are informed *)
MANAGED_OBJECT_CHANGE(s) == [s EXCEPT !.informed = @ + 1]

cmzn_spectrum_inform_clients(s) ==
    IF s.manager THEN MANAGED_OBJECT_CHANGE([s EXCEPT !.changed = FALSE])
    ELSE s

cmzn_spectrum_begin_change(s) == [s EXCEPT !.cache = @ + 1]

cmzn_spectrum_end_change(s) ==
    LET s1 == [s EXCEPT !.cache = @ - 1]
    IN  IF 0 = s1.cache /\ s1.changed THEN cmzn_spectrum_inform_clients(s1)
        ELSE s1

(* cmzn_spectrum_changed informing the clients whatever the cache is *)
cmzn_spectrum_changed_at_once(s) ==
    cmzn_spectrum_inform_clients([s EXCEPT !.changed = TRUE])

cmzn_spectrum_changed(s) ==
    LET s1 == [s EXCEPT !.changed = TRUE]
    IN  IF 0 = s1.cache THEN cmzn_spectrum_inform_clients(s1) ELSE s1

cmzn_spectrum_set_material_overwrite(s, overwrite) ==
    IF s.overwrite_colour # overwrite
    THEN cmzn_spectrum_changed([s EXCEPT !.overwrite_colour = overwrite])
    ELSE s

cmzn_spectrum_set_managed(s, value) ==
    IF value # s.is_managed_flag
    THEN MANAGED_OBJECT_CHANGE([s EXCEPT !.is_managed_flag = value])
    ELSE s

cmzn_spectrum_create_spectrumcomponent(s) ==
    cmzn_spectrum_changed([s EXCEPT !.components = @ + 1])

cmzn_spectrum_remove_all_spectrumcomponents(s) ==
    cmzn_spectrum_end_change(cmzn_spectrum_changed(
        [cmzn_spectrum_begin_change(s) EXCEPT !.components = 0]))

(* the spectrum before a call *)
SpectrumCalled == [spectrum EXCEPT !.informed = 0]

(* a call on the spectrum that made it s: records a change when the call   *)
(* does; the changes count from the outermost begin_change                 *)
SpectrumCall(call, s, records) ==
    /\ s.cache \in -1..MaxSpectrumLevel
    /\ spectrum' =
          [s EXCEPT
             !.call = call,
             !.recorded =
                 IF call = "begin_change" /\ spectrum.cache = 0 THEN 0
                 ELSE IF records /\ @ < 2 THEN @ + 1 ELSE @,
             !.balanced = @ /\ s.cache >= 0]
    /\ UNCHANGED <<fields, replace_field, cache_level, changed, delivered,
                   location, locationCounter, requestedDerivatives,
                   valueCaches, computing, bodyRuns, last, field_name,
                   otherCache>>

SpectrumBeginChange ==
    SpectrumCall("begin_change", cmzn_spectrum_begin_change(SpectrumCalled),
        FALSE)

SpectrumEndChange ==
    SpectrumCall("end_change", cmzn_spectrum_end_change(SpectrumCalled),
        FALSE)

SpectrumChanged ==
    SpectrumCall("changed", cmzn_spectrum_changed(SpectrumCalled), TRUE)

SpectrumSetMaterialOverwrite(overwrite) ==
    SpectrumCall("set_material_overwrite",
        cmzn_spectrum_set_material_overwrite(SpectrumCalled, overwrite),
        spectrum.overwrite_colour # overwrite)

SpectrumSetManaged(value) ==
    SpectrumCall("set_managed",
        cmzn_spectrum_set_managed(SpectrumCalled, value), FALSE)

SpectrumCreateSpectrumcomponent ==
    /\ spectrum.components < MaxSpectrumComponents
    /\ SpectrumCall("create_spectrumcomponent",
           cmzn_spectrum_create_spectrumcomponent(SpectrumCalled), TRUE)

SpectrumRemoveAllSpectrumcomponents ==
    SpectrumCall("remove_all_spectrumcomponents",
        cmzn_spectrum_remove_all_spectrumcomponents(SpectrumCalled), TRUE)

InitSpectrum ==
    /\ InitRegion(EmptyRegion(1))
    /\ requestedDerivatives = 0

NextSpectrum ==
    \/ SpectrumBeginChange
    \/ SpectrumEndChange
    \/ SpectrumChanged
    \/ \E overwrite \in BOOLEAN : SpectrumSetMaterialOverwrite(overwrite)
    \/ \E value \in BOOLEAN : SpectrumSetManaged(value)
    \/ SpectrumCreateSpectrumcomponent
    \/ SpectrumRemoveAllSpectrumcomponents

SpecSpectrum == InitSpectrum /\ [][NextSpectrum]_vars

(* a step of a spectrum whose every end_change so far had its              *)
(* begin_change                                                            *)
C30_Step ==
    (spectrum.balanced /\ spectrum'.balanced) =>
       /\ spectrum'.call = "begin_change" => spectrum'.informed = 0
       /\ spectrum'.call = "changed" =>
             /\ spectrum.cache > 0 =>
                   spectrum'.informed = 0 /\ spectrum'.changed
             /\ spectrum.cache = 0 =>
                   spectrum'.informed = 1 /\ ~spectrum'.changed
       /\ spectrum'.call = "end_change" =>
             /\ spectrum'.cache > 0 => spectrum'.informed = 0
             /\ spectrum'.cache = 0 =>
                   /\ spectrum'.informed
                         = (IF spectrum.recorded > 0 THEN 1 ELSE 0)
                   /\ ~spectrum'.changed

(* C30: over begin_change, end_change and cmzn_spectrum_changed calls      *)
(* that are balanced, the clients are not informed by a call made while    *)
(* the counter is above 0; the end_change that brings the counter to 0     *)
(* informs them exactly once when a change was recorded since the          *)
(* outermost begin_change and not at all when none was; the changed flag   *)
(* is clear once they are informed; and a cmzn_spectrum_changed made       *)
(* outside any bracket informs them at once.                               *)
C30_ChangeBracketing == [][C30_Step]_vars

(* C30 witness: the outermost end_change of a nested bracket with a        *)
(* change recorded inside has just informed the clients once               *)
C30_Witness ==
    /\ spectrum.call = "end_change" /\ spectrum.balanced
    /\ spectrum.cache = 0 /\ spectrum.informed = 1
    /\ spectrum.recorded = 2 /\ ~spectrum.changed

-----------------------------------------------------------------------------
(* The names of the fields of a field module *)

MaxNamedFields == 3

(* the names and name stems set: a name, the first name made from it when  *)
(* it is taken, and an automatic name                                      *)
FieldNames == {"a", "a1", "temp2"}

(* cmzn_field_set_name: refused when another field of the manager has the  *)
(* name; returns [w |-> the region afterwards, ok |-> whether renamed]     *)
cmzn_field_set_name(w, f, name) ==
    IF \E g \in Managed(w.fields) \ {f} : w.fields[g].name = name
    THEN [w |-> w, ok |-> FALSE]
    ELSE [w |-> ManagedObjectChange([w EXCEPT !.fields[f].name = name], f,
                    FALSE),
          ok |-> TRUE]

SetFieldName(name) ==
    ModuleCall("set_field_name", cmzn_fieldmodule_set_field_name(Called, name),
        0, 0, <<>>)

(* the result of the rename r of field f *)
Renamed(f, r) ==
    /\ ModuleCall("set_name", r.w, f, 0, <<>>)
    /\ r.ok \/ fields' = fields

SetName(f, name) ==
    /\ f \in Managed(fields)
    /\ Renamed(f, cmzn_field_set_name(Called, f, name))

InitNames ==
    /\ InitRegion(EmptyRegion(MaxNamedFields))
    /\ requestedDerivatives = 0

NextNames ==
    \/ \E name \in FieldNames : SetFieldName(name)
    \/ \E f \in Managed(fields), name \in FieldNames : SetName(f, name)
    \/ CreateFiniteElement(1, 1)
    \/ \E f \in Managed(fields) \cup {0} : SetReplaceField(f)

SpecNames == InitNames /\ [][NextNames]_vars

(* the names of the fields now *)
FieldNamesNow == {fields[g].name : g \in Managed(fields)}

(* a create call that made a new field gave it the name set for the next   *)
(* field when no field had it, else that name followed by a number, and a  *)
(* name no field had; a create call that redefined a field left its name   *)
(* and added no field                                                      *)
C26_Step ==
    /\ (last'.op = "create" /\ last'.field # 0 /\ last'.target = 0) =>
          /\ fields'[last'.field].name \notin FieldNamesNow
          /\ field_name # NoName =>
                IF field_name \notin FieldNamesNow
                THEN fields'[last'.field].name = field_name
                ELSE \E k \in 1..(MaxNamedFields + 1) :
                        fields'[last'.field].name
                            = field_name \o ToString(k)
    /\ (last'.op = "create" /\ last'.field # 0 /\ last'.target # 0) =>
          /\ last'.field = last'.target
          /\ fields'[last'.field].name = fields[last'.field].name
          /\ Managed(fields') = Managed(fields)

(* C26: after any creations, renames and redefinitions no two fields of    *)
(* the module have the same name; a name set for the next field is its     *)
(* name when free and made unique from that stem when taken; a             *)
(* redefinition through the replace slot keeps the name on the same field  *)
(* and adds no field.                                                      *)
C26_UniqueNames ==
    /\ [](\A f \in Managed(fields) : \A g \in Managed(fields) :
             fields[f].name = fields[g].name => f = g)
    /\ [][C26_Step]_vars

(* C26 witness: a field was created under the name a1 made from the stem   *)
(* a, which another field has, and a third field was renamed to temp2      *)
C26_Witness ==
    /\ last.op = "create" /\ last.field # 0 /\ last.target = 0
    /\ fields[last.field].name = "a1"
    /\ \E g \in Managed(fields) : fields[g].name = "a"
    /\ \E g \in Managed(fields) : fields[g].name = "temp2"

-----------------------------------------------------------------------------
(* Two field caches of one region: values assigned at a node through one   *)
(* and evaluated through the other                                         *)

MaxCacheGeneration == 1
MaxCacheAssigns == 2

(* 1 a finite element field of 2 components defined in element A and at    *)
(* node N, 2 and 3 its node values D_DS1 of versions 1 and 2                *)
NodeRegion ==
    LET s1 == Cmiss_field_module_create_finite_element(EmptyRegion(3), 2, 1,
                  {"A", "N"})
        s2 == Cmiss_field_module_create_node_value(s1.w, s1.field, "D_DS1", 1)
        s3 == Cmiss_field_module_create_node_value(s2.w, s1.field, "D_DS1", 2)
    IN  s3.w

(* the caller goes on with the other field cache *)
UseOtherCache ==
    /\ location' = otherCache.location
    /\ locationCounter' = otherCache.locationCounter
    /\ requestedDerivatives' = otherCache.requestedDerivatives
    /\ valueCaches' = otherCache.valueCaches
    /\ computing' = otherCache.computing
    /\ bodyRuns' = otherCache.bodyRuns
    /\ otherCache' = FieldCache
    /\ last' = [NoCall EXCEPT !.op = "use_cache", !.ok = TRUE]
    /\ delivered' = NoDelivery
    /\ UNCHANGED <<fields, replace_field, cache_level, changed, field_name,
                   spectrum>>

InitCaches ==
    /\ InitRegion(NodeRegion)
    /\ requestedDerivatives = 0

(* the state after the assignment r to field f at the node of the cache    *)
AssignRealAtNode(f, r) ==
    /\ r.cache.locationCounter <= MaxCacheGeneration + MaxCacheAssigns
    /\ fields' = r.fields
    /\ valueCaches' = r.cache.valueCaches
    /\ locationCounter' = r.cache.locationCounter
    /\ computing' = r.cache.computing
    /\ bodyRuns' = r.cache.bodyRuns
    /\ otherCache' = IF r.result # FIELD_ASSIGNMENT_RESULT_FAIL
                      THEN FieldChanged(otherCache) ELSE otherCache
    /\ last' = [NoCall EXCEPT
                  !.op = "assign", !.field = f,
                  !.values = r.cache.valueCaches[f].values,
                  !.ok = r.result # FIELD_ASSIGNMENT_RESULT_FAIL,
                  !.result = r.result]
    /\ delivered' = NoDelivery
    /\ UNCHANGED <<replace_field, cache_level, changed, location,
                   requestedDerivatives, field_name, spectrum>>

(* the caller sets a cache's node before it evaluates or assigns *)
NextCaches ==
    \/ \E loc \in NodeLocations :
          locationCounter < MaxCacheGeneration /\ SetLocation(loc)
    \/ \E f \in Managed(fields) :
          location \in NodeLocations /\ EvaluateReal(f)
    \/ \E f \in Managed(fields) :
          \E values \in AssignValues(fields[f].number_of_components) :
             /\ location \in NodeLocations
             /\ AssignRealAtNode(f,
                    cmzn_field_assign_real(fields, FieldCache, f, values))
    \/ UseOtherCache

SpecCaches == InitCaches /\ [][NextCaches]_vars

(* the two field caches *)
FieldCaches == {FieldCache, otherCache}

(* the values field f has at node loc: those last assigned there, for a     *)
(* node value field under its label and version                            *)
AssignedAt(fs, f, loc) ==
    IF fs[f].core = "node_value"
    THEN fs[fs[f].source_fields[1]].node_values[loc][NodeValueLabel(fs[f])]
    ELSE fs[f].parameters[loc]

=============================================================================
